---- MODULE Spec2Model ----
(***************************************************************************)
(* Power BI Annotator: the page-scoped annotation store of the content     *)
(* script (content.js as listed in REVIEW.md), the persistent              *)
(* chrome.storage.local table behind it and the capture handshake with     *)
(* the background service worker (background.js).                          *)
(*                                                                         *)
(* JavaScript arrays are objects: `allAnnotationsCache[key] = annotations` *)
(* stores a reference, and `annotations.push(a)` changes every bucket that *)
(* holds that reference.  The model keeps a heap of array objects for that.*)
(***************************************************************************)
EXTENDS Integers, Sequences, FiniteSets, TLC

\* ------------------------------------------------------------------ bounds
MaxCreate == 3   \* annotations created per session (annotationIdCounter cap)
MaxQueue  == 2   \* storage requests in flight
MaxNow    == 2   \* last clock tick (Date.now(), coarse)
MaxWire   == 1   \* runtime messages in flight, per receiver
MaxJobs   == 2   \* captures, and icon-click lookups, under way in the worker
MaxPuts   == 3   \* images asked for or stored in the screenshot cache
MaxLines   == 3  \* wrapped lines of one comment in the PDF
MaxPending == 1  \* getActivePage() promises not yet settled

\* ------------------------------------------------------- program constants
IdK == 100       \* generateAnnotationId: Date.now() * 100 + counter % 100
maxRetries == 30 \* powerbi-page-script.js: probes counted before slowing down

Tabs == {"T1", "T2"}
MainTab == "T1"

\* Locators of the host single-page application: pathname + search.
Loc(pathname, search) == [pathname |-> pathname, search |-> search]

\* Two pages of one report that differ in the query string only.
QueryLocs == { Loc("/r/1", ""), Loc("/r/1", "?p") }

\* Two pages that differ in the path.
PathLocs == { Loc("/r/1", ""), Loc("/r/2", "") }

\* The comment typed for the n-th annotation of a session.  The text never
\* decides a branch once it is non-blank, so one text per annotation is drawn.
CommentSeq == <<"A", "B", "C", "D", "E">>
Comments(n) == {CommentSeq[(n % Len(CommentSeq)) + 1]}

NoId == -1       \* a drawing box carries no data-id yet

\* The key of the current page: window.location.pathname + window.location.search
getPageKey(loc) == loc.pathname \o loc.search

\* loadAnnotations: const legacyKey = window.location.pathname
legacyKeyOf(loc) == loc.pathname

\* url.pathname.split('/').filter(p => p) and its last element
LastSegment(pathname) ==
  CASE pathname = "/r/1" -> "1"
    [] pathname = "/r/2" -> "2"
    [] OTHER -> ""

\* The active-tab indicator the host page shows for a locator ("" when no
\* structural selector matches).
HostTab(loc) ==
  CASE loc.pathname = "/r/1" /\ loc.search = "" -> "Overview"
    [] loc.pathname = "/r/1" /\ loc.search = "?p" -> "Detail"
    [] OTHER -> ""

\* getPageName: first a probe of the host page, at last the path segment
getPageName(loc) ==
  IF HostTab(loc) # "" THEN HostTab(loc)
  ELSE IF LastSegment(loc.pathname) # "" THEN LastSegment(loc.pathname)
  ELSE "Power BI Report"

\* ------------------------------------------------------------ ordered maps
\* A JavaScript object used as a map keeps its keys in insertion order
\* (Object.keys); a map is a sequence of [k, v] entries with distinct keys.
Has(m, k) == \E i \in 1..Len(m) : m[i].k = k
Get(m, k) == m[CHOOSE i \in 1..Len(m) : m[i].k = k].v
Put(m, k, v) ==
  IF Has(m, k)
  THEN [i \in 1..Len(m) |-> IF m[i].k = k THEN [k |-> k, v |-> v] ELSE m[i]]
  ELSE Append(m, [k |-> k, v |-> v])
Del(m, k) == SelectSeq(m, LAMBDA e : e.k # k)
KeysOf(m) == {m[i].k : i \in 1..Len(m)}

\* ------------------------------------------------------------------- state
VARIABLES
  cs,      \* per tab: the content script's globals, its page and its DOM
  store,   \* chrome.storage.local: the persisted `annotations` map
  queue,   \* storage requests issued and not yet served, in issue order
  now,     \* Date.now()
  bg,      \* the background service worker and chrome.storage.session
  wire,    \* runtime messages sent and not yet handled
  ex,      \* per tab: the content script's side of a screenshot capture
  last,    \* the handler that ran last
  out,     \* the document or table the latest generator run has laid out
  shots,   \* the screenshot cache: per tab in memory, as persisted, and the
           \* captureForCache requests and cache loads under way
  fault,   \* chrome.storage.local fails the requests it serves (quota
           \* exceeded, storage unavailable): callbacks find lastError
  poll     \* the page-context script: its counters, its timers, the
           \* getActivePage() promises under way, and the page it runs in

vars == <<cs, store, queue, now, bg, wire, ex, last, out, shots, fault, poll>>

\* What the handlers of the capture leave alone, and what the handlers of
\* the annotation store leave alone; no handler of either lays out a
\* document.
annVars == <<cs, store, queue, now, out, shots, fault, poll>>
capVars == <<bg, wire, ex, out, shots, fault, poll>>

\* No generator has run.
NoOut == [format |-> "none"]

\* let screenshotCache = {} in every content script, nothing persisted under
\* 'screenshotCache', no request under way; `worker` tells whether the
\* background worker answers captureForCache (when it does not, the response
\* callback finds chrome.runtime.lastError and returns at once)
ShotsInit ==
  [mem |-> [t \in Tabs |-> <<>>], disk |-> <<>>, diskSet |-> FALSE,
   worker |-> FALSE, asks |-> <<>>,
   loads |-> [t \in Tabs |-> [on |-> FALSE, set |-> FALSE, value |-> <<>>]],
   n |-> 0]

\* powerbi-page-script.js as injected, before its first statement runs: the
\* counters at their initial values, no timer yet.  `env` is what the page
\* offers (typeof powerbi, powerbi.embeds, report.getActivePage), `url` its
\* pathname + search, `posted` the latest window.postMessage; `detected`,
\* `failures` and `switches` record what has happened so far: a probe has
\* read the active page, the probes that ended without it (counted until
\* one reads it, 0 from then on), the times the slow timer was started.
PollInit ==
  [started |-> FALSE, retryCount |-> 0, hasLoggedStatus |-> FALSE,
   lastSentName |-> "", lastSentUrl |-> "",
   fast |-> FALSE, slow |-> 0, pending |-> <<>>,
   env |-> "undefined", url |-> "/r/1", posted |-> [type |-> "none"],
   detected |-> FALSE, failures |-> 0, switches |-> 0]

\* generateAnnotationId: Date.now() * 100 + (annotationIdCounter++ % 100)
generateAnnotationId(clock, counter) == clock * IdK + (counter % IdK)

\* ------------------------------------------------------------ array objects
Max(S) == CHOOSE x \in S : \A y \in S : y <= x

\* The reference of a new array object.
NewRef(heap) == IF DOMAIN heap = {} THEN 1 ELSE Max(DOMAIN heap) + 1

\* The array objects reachable from `annotations` and the cache, renamed in
\* order of first reach; unreachable arrays are collected.
Normalize(c) ==
  LET m     == c.allAnnotationsCache.map
      order == <<c.annotations>> \o [i \in 1..Len(m) |-> m[i].v]
      first == {i \in 1..Len(order) : \A j \in 1..(i - 1) : order[j] # order[i]}
      rank(r) == Cardinality({i \in first :
                   i <= (CHOOSE i2 \in first : order[i2] = r)})
      byRank(n) == order[CHOOSE i \in first : rank(order[i]) = n]
  IN [c EXCEPT
        !.heap = [n \in 1..Cardinality(first) |-> c.heap[byRank(n)]],
        !.annotations = rank(c.annotations),
        !.allAnnotationsCache.map =
           [i \in 1..Len(m) |-> [k |-> m[i].k, v |-> rank(m[i].v)]]]

\* What chrome.storage is handed: a copy of the map with the arrays' contents.
Serialize(m, heap) == [i \in 1..Len(m) |-> [k |-> m[i].k, v |-> heap[m[i].v]]]

\* What a storage read hands back: fresh array objects, one per bucket.
RECURSIVE Deserialize(_, _, _)
Deserialize(persisted, heap, acc) ==
  IF persisted = <<>> THEN [map |-> acc, heap |-> heap]
  ELSE LET r == NewRef(heap)
       IN Deserialize(Tail(persisted), heap @@ (r :> Head(persisted).v),
                      Append(acc, [k |-> Head(persisted).k, v |-> r]))

\* The list `annotations` refers to.
Active(c) == c.heap[c.annotations]

IdsOf(list) == {list[i].id : i \in 1..Len(list)}

\* The contents of a tab's all-pages cache, bucket by bucket.
CacheBuckets(c) == Serialize(c.allAnnotationsCache.map, c.heap)

\* allAnnotationsCache[k] || []: the bucket stored for key k, else the empty list
BucketOr(m, k) == IF Has(m, k) THEN Get(m, k) ELSE <<>>

\* ------------------------------------------------------- storage requests
GetOp(t, who, pageKey, legacyKey) ==
  [op |-> "get", tab |-> t, who |-> who, pageKey |-> pageKey,
   legacyKey |-> legacyKey, value |-> <<>>]
SetOp(t, value) ==
  [op |-> "set", tab |-> t, who |-> "save", pageKey |-> "",
   legacyKey |-> "", value |-> value]

\* ------------------------------------------------------ the content script
\* startX, startY, currentDrawingTool and the style of the temporary box
\* before any drag: nothing has been drawn.
NoGesture ==
  [tool |-> "rectangle", startX |-> 0, startY |-> 0, pageX |-> 0, pageY |-> 0,
   left |-> 0, top |-> 0, width |-> 0, height |-> 0,
   minX |-> 0, maxX |-> 0, minY |-> 0, maxY |-> 0,
   live |-> [x1 |-> 0, y1 |-> 0, x2 |-> 0, y2 |-> 0],
   rect |-> [width |-> 0, height |-> 0], endX |-> 0, endY |-> 0]

\* The globals of a tab whose content script has not run yet.
Closed ==
  [open |-> FALSE, location |-> Loc("/r/1", ""),
   lastPageKey |-> "", annotations |-> 1, heap |-> <<<<>>>>,
   allAnnotationsCache |-> [isNull |-> TRUE, map |-> <<>>],
   annotationIdCounter |-> 0, isAnnotationMode |-> FALSE,
   currentAnnotation |-> FALSE, modal |-> "none", modalId |-> NoId,
   dom |-> <<>>, gesture |-> NoGesture, shapes |-> <<>>]

\* createAnnotationElement(annotation, index + 1) for each annotation
RenderBoxes(list) == [i \in 1..Len(list) |-> [id |-> list[i].id, num |-> i]]

\* document.querySelectorAll('.pbi-annotation-box') without the box being drawn
HasDrawingBox(dom) == \E i \in 1..Len(dom) : dom[i].id = NoId

\* saveAnnotations, on the world w = [c: the tab's globals, q: the queue]
saveAnnotations(t, w) ==
  LET pageKey == getPageKey(w.c.location)
  IN IF w.c.allAnnotationsCache.isNull
     THEN \* cache not loaded yet: read, then modify and write in the callback
          [w EXCEPT !.q = Append(@, GetOp(t, "save", pageKey, ""))]
     ELSE LET m == Put(w.c.allAnnotationsCache.map, pageKey, w.c.annotations)
          IN [c |-> [w.c EXCEPT !.allAnnotationsCache.map = m],
              q |-> Append(w.q, SetOp(t, Serialize(m, w.c.heap)))]

\* A fallback that writes this page's bucket alone, without the merge.
saveAnnotationsCallbackBlind(t, w, result, pageKey) ==
  LET m == Put(<<>>, pageKey, w.c.annotations)
  IN [c |-> [w.c EXCEPT !.allAnnotationsCache = [isNull |-> FALSE, map |-> m]],
      q |-> Append(w.q, SetOp(t, Serialize(m, w.c.heap)))]

\* saveAnnotations: the callback of the read in the fallback branch
saveAnnotationsCallback(t, w, result, pageKey) ==
  LET d == Deserialize(result, w.c.heap, <<>>)
      m == Put(d.map, pageKey, w.c.annotations)
  IN [c |-> [w.c EXCEPT !.heap = d.heap,
                        !.allAnnotationsCache = [isNull |-> FALSE, map |-> m]],
      q |-> Append(w.q, SetOp(t, Serialize(m, d.heap)))]

\* A load that copies the legacy bucket and leaves the legacy key in place.
loadAnnotationsCallbackKeepLegacy(t, w, result, pageKey, legacyKey) ==
  LET d == Deserialize(result, w.c.heap, <<>>)
      found == Has(d.map, pageKey)
      r0 == IF found THEN Get(d.map, pageKey) ELSE NewRef(d.heap)
      h0 == IF found THEN d.heap ELSE d.heap @@ (r0 :> <<>>)
      migrate == Len(h0[r0]) = 0 /\ legacyKey # pageKey /\ Has(d.map, legacyKey)
      r == IF migrate THEN Get(d.map, legacyKey) ELSE r0
      m == IF migrate THEN Put(d.map, pageKey, r) ELSE d.map
  IN [c |-> [w.c EXCEPT !.heap = h0, !.annotations = r,
                        !.allAnnotationsCache = [isNull |-> FALSE, map |-> m],
                        !.dom = @ \o RenderBoxes(h0[r])],
      q |-> IF migrate THEN Append(w.q, SetOp(t, Serialize(m, h0))) ELSE w.q]

\* loadAnnotations: the callback of the read
loadAnnotationsCallback(t, w, result, pageKey, legacyKey) ==
  LET d == Deserialize(result, w.c.heap, <<>>)
      found == Has(d.map, pageKey)
      r0 == IF found THEN Get(d.map, pageKey) ELSE NewRef(d.heap)
      h0 == IF found THEN d.heap ELSE d.heap @@ (r0 :> <<>>)
      migrate == Len(h0[r0]) = 0 /\ legacyKey # pageKey /\ Has(d.map, legacyKey)
      r == IF migrate THEN Get(d.map, legacyKey) ELSE r0
      m == IF migrate THEN Del(Put(d.map, pageKey, r), legacyKey) ELSE d.map
  IN [c |-> [w.c EXCEPT !.heap = h0, !.annotations = r,
                        !.allAnnotationsCache = [isNull |-> FALSE, map |-> m],
                        !.dom = @ \o RenderBoxes(h0[r])],
      q |-> IF migrate THEN Append(w.q, SetOp(t, Serialize(m, h0))) ELSE w.q]

\* onPageChanged(oldKey, newKey)
onPageChanged(t, w, oldKey, newKey) ==
  LET w1 == saveAnnotations(t, w)
      c1 == w1.c
      m  == c1.allAnnotationsCache.map
      found == ~c1.allAnnotationsCache.isNull /\ Has(m, newKey)
      r == IF found THEN Get(m, newKey) ELSE NewRef(c1.heap)
      h == IF found THEN c1.heap ELSE c1.heap @@ (r :> <<>>)
  IN [c |-> [c1 EXCEPT !.isAnnotationMode = FALSE, !.heap = h,
                       !.annotations = r, !.dom = RenderBoxes(h[r]),
                       !.lastPageKey = newKey],
      q |-> w1.q]

\* renumberAnnotations: the first box with each annotation's id gets index + 1
renumberAnnotations(dom, list) ==
  [i \in 1..Len(dom) |->
     IF /\ \E n \in 1..Len(list) : list[n].id = dom[i].id
        /\ \A j \in 1..(i - 1) : dom[j].id # dom[i].id
     THEN [dom[i] EXCEPT !.num = CHOOSE n \in 1..Len(list) :
             list[n].id = dom[i].id /\ \A n2 \in 1..(n - 1) : list[n2].id # dom[i].id]
     ELSE dom[i]]

\* document.querySelector(`.pbi-annotation-box[data-id="${id}"]`).remove()
RemoveFirstBox(dom, id) ==
  IF \E i \in 1..Len(dom) : dom[i].id = id
  THEN LET f == CHOOSE i \in 1..Len(dom) :
                  dom[i].id = id /\ \A j \in 1..(i - 1) : dom[j].id # id
       IN [i \in 1..(Len(dom) - 1) |-> IF i < f THEN dom[i] ELSE dom[i + 1]]
  ELSE dom

\* The annotation handleMouseUp builds (geometry left out).
NewAnnotation(c, comment) ==
  [id |-> generateAnnotationId(now, c.annotationIdCounter),
   url |-> c.location, comment |-> comment]

\* handleMouseUp after the prompt resolved with a non-blank comment
handleMouseUpConfirmed(t, w, comment) ==
  LET c == w.c
      a == NewAnnotation(c, comment)
      pushed == [c EXCEPT !.heap[c.annotations] = Append(@, a),
                          !.annotationIdCounter = @ + 1,
                          !.modal = "none"]
      w1 == saveAnnotations(t, [c |-> pushed, q |-> w.q])
  IN [w1 EXCEPT !.c.dom =
        [i \in 1..Len(@) |->
           IF @[i].id = NoId
           THEN [id |-> a.id, num |-> Len(w1.c.heap[w1.c.annotations])]
           ELSE @[i]]]

\* deleteAnnotation(id) after the confirmation
deleteAnnotationConfirmed(t, w, id) ==
  LET c == w.c
      r == NewRef(c.heap)
      kept == SelectSeq(c.heap[c.annotations], LAMBDA a : a.id # id)
      c1 == [c EXCEPT !.heap = @ @@ (r :> kept), !.annotations = r,
                      !.dom = RemoveFirstBox(@, id),
                      !.modal = "none", !.modalId = NoId]
      w1 == saveAnnotations(t, [c |-> c1, q |-> w.q])
  IN [w1 EXCEPT !.c.dom = renumberAnnotations(@, kept)]

\* clearAllAnnotations after the confirmation
clearAllAnnotationsConfirmed(t, w) ==
  LET c == w.c
      r == NewRef(c.heap)
      c1 == [c EXCEPT !.heap = @ @@ (r :> <<>>), !.annotations = r,
                      !.dom = <<>>, !.modal = "none", !.modalId = NoId]
  IN saveAnnotations(t, [c |-> c1, q |-> w.q])

\* ------------------------------------------------------------------ export
\* getAnnotatedPages: the keys of the cache with a non-empty bucket, in
\* Object.keys order, each with its display name
getAnnotatedPages(c) ==
  IF c.allAnnotationsCache.isNull THEN <<>>
  ELSE LET m == SelectSeq(CacheBuckets(c), LAMBDA e : Len(e.v) > 0)
           currentKey == getPageKey(c.location)
       IN [i \in 1..Len(m) |->
             [key |-> m[i].k,
              name |-> IF m[i].k = currentKey THEN getPageName(c.location)
                       ELSE IF LastSegment(m[i].v[1].url.pathname) # ""
                            THEN LastSegment(m[i].v[1].url.pathname)
                            ELSE m[i].k,
              count |-> Len(m[i].v),
              isCurrent |-> m[i].k = currentKey]]

\* showScopeDialog: the scopes the user can end up with (cancel aside)
showScopeDialog(c) ==
  IF Len(getAnnotatedPages(c)) <= 1 THEN {"current"} ELSE {"all", "current"}

\* exportAnnotations: the pages handed to buildCsvRows for a scope
exportedPages(c, scope) ==
  IF scope = "all"
  THEN LET pages == getAnnotatedPages(c)
       IN [i \in 1..Len(pages) |->
             [name |-> pages[i].name,
              annotations |-> BucketOr(CacheBuckets(c), pages[i].key)]]
  ELSE << [name |-> getPageName(c.location), annotations |-> Active(c)] >>

\* buildCsvRows: one row per annotation, numbered by one global counter
RECURSIVE buildCsvRows(_, _)
buildCsvRows(pages, globalNumber) ==
  IF pages = <<>> THEN <<>>
  ELSE LET page == Head(pages)
           rows == [n \in 1..Len(page.annotations) |->
                      [no |-> globalNumber + n - 1, name |-> page.name,
                       comment |-> page.annotations[n].comment]]
       IN rows \o buildCsvRows(Tail(pages), globalNumber + Len(page.annotations))

\* exportAnnotations: the rows written for a scope; nothing is exported
\* while the active list is empty
exportAnnotations(c, scope) ==
  IF Len(Active(c)) = 0 THEN <<>>
  ELSE buildCsvRows(exportedPages(c, scope), 1)

\* What a content script starting at `loc` gets from loadAnnotations when
\* storage holds `persisted`.
LoadFresh(loc, persisted) ==
  loadAnnotationsCallback(MainTab,
    [c |-> [Closed EXCEPT !.open = TRUE, !.location = loc,
                          !.lastPageKey = getPageKey(loc)],
     q |-> <<>>],
    persisted, getPageKey(loc), legacyKeyOf(loc))

\* ----------------------------------------------------------------- actions
World(t) == [c |-> cs[t], q |-> queue]

\* chrome.storage.local serves requests in the order they were issued, so a
\* write issued while nothing is waiting takes effect before anything issued
\* later can observe the table: such writes are served at once.
RECURSIVE Drain(_)
Drain(sq) ==
  IF sq.q # <<>> /\ Head(sq.q).op = "set"
  THEN Drain([s |-> Head(sq.q).value, q |-> Tail(sq.q)])
  ELSE sq

\* A write served while storage fails leaves the table as it was; its
\* callback logs chrome.runtime.lastError and does nothing else.
RECURSIVE Discard(_)
Discard(sq) ==
  IF sq.q # <<>> /\ Head(sq.q).op = "set"
  THEN Discard([s |-> sq.s, q |-> Tail(sq.q)])
  ELSE sq

\* The handler's result becomes the next state.
CommitStore(t, w, handler) ==
  LET sq == IF fault THEN Discard([s |-> store, q |-> w.q])
            ELSE Drain([s |-> store, q |-> w.q])
  IN /\ cs' = [cs EXCEPT ![t] = Normalize(w.c)]
     /\ queue' = sq.q
     /\ store' = sq.s
     /\ last' = handler

Commit(t, w, handler) ==
  /\ CommitStore(t, w, handler)
  /\ UNCHANGED capVars

\* cacheCurrentScreenshot, before the request: the page is skipped when the
\* all-pages cache is there and has no annotation under the key
wantsScreenshot(c, key) ==
  ~ (/\ ~ c.allAnnotationsCache.isNull
     /\ Len(BucketOr(CacheBuckets(c), key)) = 0)

\* cacheCurrentScreenshot(pageKey) up to the request to the worker
cacheCurrentScreenshot(sh, c, t, key) ==
  IF sh.worker /\ wantsScreenshot(c, key)
  THEN [sh EXCEPT !.asks = Append(@, [tab |-> t, key |-> key]), !.n = @ + 1]
  ELSE sh

\* The result of a handler that ends with cacheCurrentScreenshot(key).
CommitAsk(t, w, handler, key) ==
  /\ shots.worker => shots.n < MaxPuts
  /\ CommitStore(t, w, handler)
  /\ shots' = cacheCurrentScreenshot(shots, w.c, t, key)
  /\ UNCHANGED <<bg, wire, ex, out, fault, poll>>

Idle(t) == cs[t].open /\ cs[t].modal = "none"

\* init(): the content script starts on a page and issues the load
OpenTab(t, loc) ==
  /\ ~cs[t].open
  /\ Len(queue) < MaxQueue
  /\ Commit(t, [c |-> [Closed EXCEPT !.open = TRUE, !.location = loc,
                                     !.lastPageKey = getPageKey(loc)],
                q |-> Append(queue, GetOp(t, "load", getPageKey(loc),
                                          legacyKeyOf(loc)))], "OpenTab")
  /\ UNCHANGED now

\* The host application navigates: the locator changes without a reload.
Navigate(t, loc) ==
  /\ cs[t].open
  /\ loc # cs[t].location
  /\ cs' = [cs EXCEPT ![t].location = loc]
  /\ last' = "Navigate"
  /\ UNCHANGED <<store, queue, now, capVars>>

\* startNavigationWatcher: the 500 ms timer finds the key changed
NavigationTick(t) ==
  /\ cs[t].open
  /\ getPageKey(cs[t].location) # cs[t].lastPageKey
  /\ Len(queue) < MaxQueue
  /\ CommitAsk(t, onPageChanged(t, World(t), cs[t].lastPageKey,
                                getPageKey(cs[t].location)), "NavigationTick",
               cs[t].lastPageKey)
  /\ UNCHANGED now

\* toggleAnnotationMode
ToggleAnnotationMode(t) ==
  /\ Idle(t)
  /\ cs' = [cs EXCEPT ![t].isAnnotationMode = ~@]
  /\ last' = "ToggleAnnotationMode"
  /\ UNCHANGED <<store, queue, now, capVars>>

\* handleMouseDown: a drag starts, the temporary box enters the document
HandleMouseDown(t, cap) ==
  /\ Idle(t)
  /\ cs[t].isAnnotationMode
  /\ ~cs[t].currentAnnotation
  /\ cs[t].annotationIdCounter < cap
  /\ cs' = [cs EXCEPT ![t].currentAnnotation = TRUE,
                      ![t].dom = Append(@, [id |-> NoId, num |-> 0])]
  /\ last' = "HandleMouseDown"
  /\ UNCHANGED <<store, queue, now, capVars>>

\* handleMouseUp up to the prompt; `big` is rect.width >= 10 /\ rect.height >= 10
\* of an attached box (a box removed from the document measures 0 x 0)
HandleMouseUp(t, big) ==
  /\ Idle(t)
  /\ cs[t].currentAnnotation
  /\ IF big /\ HasDrawingBox(cs[t].dom)
     THEN cs' = [cs EXCEPT ![t].currentAnnotation = FALSE, ![t].modal = "prompt"]
     ELSE cs' = [cs EXCEPT ![t].currentAnnotation = FALSE,
                          ![t].dom = RemoveFirstBox(@, NoId)]
  /\ last' = "HandleMouseUp"
  /\ UNCHANGED <<store, queue, now, capVars>>

\* handleMouseUp: the prompt is confirmed with a non-blank comment
PromptOk(t, comment) ==
  /\ cs[t].open
  /\ cs[t].modal = "prompt"
  /\ Len(queue) < MaxQueue
  /\ CommitAsk(t, handleMouseUpConfirmed(t, World(t), comment), "PromptOk",
               getPageKey(cs[t].location))
  /\ UNCHANGED now

\* handleMouseUp: the prompt is cancelled or left blank
PromptCancel(t) ==
  /\ cs[t].open
  /\ cs[t].modal = "prompt"
  /\ cs' = [cs EXCEPT ![t].modal = "none", ![t].dom = RemoveFirstBox(@, NoId)]
  /\ last' = "PromptCancel"
  /\ UNCHANGED <<store, queue, now, capVars>>

\* deleteAnnotation(id): the Delete button of a listed comment opens the dialog
DeleteRequest(t, id) ==
  /\ Idle(t)
  /\ id \in IdsOf(Active(cs[t]))
  /\ cs' = [cs EXCEPT ![t].modal = "confirmDelete", ![t].modalId = id]
  /\ last' = "DeleteRequest"
  /\ UNCHANGED <<store, queue, now, capVars>>

DeleteConfirm(t) ==
  /\ cs[t].open
  /\ cs[t].modal = "confirmDelete"
  /\ Len(queue) < MaxQueue
  /\ Commit(t, deleteAnnotationConfirmed(t, World(t), cs[t].modalId), "DeleteConfirm")
  /\ UNCHANGED now

\* clearAllAnnotations: the Clear button opens the dialog
ClearRequest(t) ==
  /\ Idle(t)
  /\ cs' = [cs EXCEPT ![t].modal = "confirmClear"]
  /\ last' = "ClearRequest"
  /\ UNCHANGED <<store, queue, now, capVars>>

ClearConfirm(t) ==
  /\ cs[t].open
  /\ cs[t].modal = "confirmClear"
  /\ Len(queue) < MaxQueue
  /\ Commit(t, clearAllAnnotationsConfirmed(t, World(t)), "ClearConfirm")
  /\ UNCHANGED now

\* showConfirm resolved false
ConfirmCancel(t) ==
  /\ cs[t].open
  /\ cs[t].modal \in {"confirmDelete", "confirmClear"}
  /\ cs' = [cs EXCEPT ![t].modal = "none", ![t].modalId = NoId]
  /\ last' = "ConfirmCancel"
  /\ UNCHANGED <<store, queue, now, capVars>>

\* chrome.storage.local serves the oldest request: a read's callback runs
LoadCallback ==
  /\ ~ fault
  /\ queue # <<>>
  /\ Head(queue).op = "get" /\ Head(queue).who = "load"
  /\ LET o == Head(queue)
     IN Commit(o.tab, loadAnnotationsCallback(o.tab,
                 [c |-> cs[o.tab], q |-> Tail(queue)], store,
                 o.pageKey, o.legacyKey), "LoadCallback")
  /\ UNCHANGED now

SaveCallback ==
  /\ ~ fault
  /\ queue # <<>>
  /\ Head(queue).op = "get" /\ Head(queue).who = "save"
  /\ LET o == Head(queue)
     IN Commit(o.tab, saveAnnotationsCallback(o.tab,
                 [c |-> cs[o.tab], q |-> Tail(queue)], store, o.pageKey), "SaveCallback")
  /\ UNCHANGED now

\* loadAnnotations: the read fails, the callback logs and returns
LoadFailed ==
  /\ fault
  /\ queue # <<>>
  /\ Head(queue).op = "get" /\ Head(queue).who = "load"
  /\ LET o == Head(queue)
     IN Commit(o.tab, [c |-> cs[o.tab], q |-> Tail(queue)], "LoadFailed")
  /\ UNCHANGED now

\* saveAnnotations without the cache: the read fails, the callback logs and
\* returns
SaveReadFailed ==
  /\ fault
  /\ queue # <<>>
  /\ Head(queue).op = "get" /\ Head(queue).who = "save"
  /\ LET o == Head(queue)
     IN Commit(o.tab, [c |-> cs[o.tab], q |-> Tail(queue)], "SaveReadFailed")
  /\ UNCHANGED now

\* chrome.storage.local starts or stops failing.
StorageFault ==
  /\ fault' = ~ fault
  /\ last' = "StorageFault"
  /\ UNCHANGED <<cs, store, queue, now, bg, wire, ex, out, shots, poll>>

\* The clock advances.
Tick ==
  /\ now < MaxNow
  /\ now' = now + 1
  /\ last' = "Tick"
  /\ UNCHANGED <<cs, store, queue, capVars>>

\* The user draws annotations on the page of a tab.
DrawNext(t) ==
  \/ ToggleAnnotationMode(t)
  \/ HandleMouseDown(t, MaxCreate)
  \/ \E big \in BOOLEAN : HandleMouseUp(t, big)
  \/ \E comment \in Comments(cs[t].annotationIdCounter) : PromptOk(t, comment)
  \/ PromptCancel(t)

\* The user removes annotations of the page of a tab.
EditNext(t) ==
  \/ \E id \in IdsOf(Active(cs[t])) : DeleteRequest(t, id)
  \/ DeleteConfirm(t)
  \/ ClearRequest(t)
  \/ ClearConfirm(t)
  \/ ConfirmCancel(t)

TabNext(t, locs) ==
  \/ \E loc \in locs : OpenTab(t, loc)
  \/ \E loc \in locs : Navigate(t, loc)
  \/ NavigationTick(t)
  \/ DrawNext(t)
  \/ EditNext(t)

\* ------------------------------------------------------- screenshot capture
NoTab == "none"

\* A runtime message; `kind` tells an image result from an error result.
Msg(action, tab, kind) == [action |-> action, tab |-> tab, kind |-> kind]

\* background.js at start-up: no token, no badge, no capture under way
BgInit ==
  [pendingCapture |-> NoTab, session |-> NoTab, badge |-> FALSE,
   jobs |-> <<>>, lookups |-> <<>>]

WireInit == [toBg |-> <<>>, toTab |-> [t \in Tabs |-> <<>>]]

\* The two content scripts of the repository: src/content/content.js and
\* the revision of it listed in REVIEW.md.
Builds == {"content.js", "REVIEW.md"}

Scopes == {"current", "all"}

\* What the host page offers to getReportCanvas: an element matching one of
\* the structural selectors, a div larger than 800 x 400, both or neither.
Doms == [selector : BOOLEAN, largeDiv : BOOLEAN]

FullDom == [selector |-> TRUE, largeDiv |-> TRUE]

\* content script: no export has asked for a screenshot yet.  `doc` is the
\* stage or the outcome of the latest image export, `notice` the modal it
\* showed, `uiHidden` whether the sidebar and the toggle button are hidden.
ExInit ==
  [promise |-> "none", screenshotResolver |-> FALSE, overlay |-> "none",
   build |-> "REVIEW.md", scope |-> "current", canvas |-> "selector",
   uiHidden |-> FALSE, doc |-> "none", notice |-> "none"]

\* getReportCanvas() of src/content/content.js: the selectors, then the
\* largest div
getReportCanvasLargest(dom) ==
  IF dom.selector THEN "selector"
  ELSE IF dom.largeDiv THEN "largest"
  ELSE "none"

\* getReportCanvas() of REVIEW.md: the selectors, then null
getReportCanvas(dom) ==
  IF dom.selector THEN "selector" ELSE "none"

\* The report canvas the build of this content script resolves.
ReportCanvas(x, dom) ==
  IF x.build = "content.js" THEN getReportCanvasLargest(dom)
  ELSE getReportCanvas(dom)

\* A token kept in the worker's memory only.
setPendingCaptureInMemory(b, tabId) ==
  [b EXCEPT !.pendingCapture = tabId, !.badge = TRUE]

\* setPendingCapture(tabId)
setPendingCapture(b, tabId) ==
  [b EXCEPT !.pendingCapture = tabId, !.session = tabId, !.badge = TRUE]

\* clearPendingCapture()
clearPendingCapture(b) ==
  [b EXCEPT !.pendingCapture = NoTab, !.session = NoTab, !.badge = FALSE]

\* captureAndSend(tab), up to the callback of the hideForCapture message;
\* on bw = [b: the worker, w: the wire]
captureAndSend(bw, tab) ==
  [b |-> [bw.b EXCEPT !.jobs = Append(@, [tab |-> tab, stage |-> "hide"])],
   w |-> [bw.w EXCEPT !.toTab[tab] = Append(@, Msg("hideForCapture", tab, ""))]]

\* background.js, chrome.runtime.onMessage listener
onMessageBackground(b, request) ==
  IF request.action = "prepareCapture" THEN setPendingCapture(b, request.tab)
  ELSE IF request.action = "cancelCapture" THEN clearPendingCapture(b)
  ELSE b

\* waitForScreenshotOrCancel: the overlay is shown and the resolver is set
waitForScreenshotOrCancel(x) ==
  [x EXCEPT !.promise = "pending", !.screenshotResolver = TRUE,
            !.overlay = "shown"]

\* waitForScreenshotOrCancel: the click handler of the Cancel button
onCancelClick(x) ==
  [x EXCEPT !.screenshotResolver = FALSE, !.overlay = "none",
            !.promise = "null"]

\* A listener that forgets the resolver without calling it.
onMessageContentDropping(x, message) ==
  IF message.action = "hideForCapture"
  THEN [x EXCEPT !.overlay = IF @ = "shown" THEN "hidden" ELSE @]
  ELSE IF message.action = "screenshotResult" /\ x.screenshotResolver
  THEN [x EXCEPT !.screenshotResolver = FALSE]
  ELSE x

\* content.js, chrome.runtime.onMessage listener (toggleSidebar changes the
\* sidebar alone, which no capture looks at)
onMessageContent(x, message) ==
  IF message.action = "hideForCapture"
  THEN [x EXCEPT !.overlay = IF @ = "shown" THEN "hidden" ELSE @]
  ELSE IF message.action = "screenshotResult" /\ x.screenshotResolver
  THEN \* screenshotResolver(message): the overlay goes, the promise resolves
       [x EXCEPT !.overlay = "none", !.promise = message.kind,
                 !.screenshotResolver = FALSE]
  ELSE x

\* generatePresentation / generateMultiPagePresentation after
\* `await waitForScreenshotOrCancel()`: runs when the promise has resolved
continueExport(x) ==
  IF x.doc # "awaiting" \/ x.promise = "pending" THEN x
  ELSE IF x.promise = "null"
  THEN [x EXCEPT !.uiHidden = FALSE, !.doc = "cancelled"]
  ELSE IF x.promise = "image"
  THEN IF x.canvas # "none"
       THEN [x EXCEPT !.doc = "cropping"]
       ELSE [x EXCEPT !.uiHidden = FALSE, !.doc = "loading"]
  ELSE \* result.error is logged; the generator gets a null screenshot
       [x EXCEPT !.uiHidden = FALSE, !.doc = "placeholder",
                 !.notice = "exported"]

\* generatePresentation(format) up to its first await of the capture
generatePresentation(x, dom, context) ==
  LET canvas == ReportCanvas(x, dom)
      y == [x EXCEPT !.scope = "current", !.canvas = canvas,
                     !.doc = "none", !.notice = "none"]
  IN IF canvas = "none"
     THEN [y EXCEPT !.doc = "aborted", !.notice = "noCanvas"]
     ELSE IF ~context
     THEN [y EXCEPT !.doc = "aborted", !.notice = "noContext"]
     ELSE [waitForScreenshotOrCancel(y) EXCEPT !.uiHidden = TRUE,
                                               !.doc = "awaiting"]

\* generateMultiPagePresentation(format) up to its first await of the
\* capture; without a cached screenshot of the current page
generateMultiPagePresentation(x, dom, context) ==
  LET canvas == ReportCanvas(x, dom)
      y == [x EXCEPT !.scope = "all", !.canvas = canvas,
                     !.doc = "none", !.notice = "none"]
  IN IF ~context
     THEN [y EXCEPT !.doc = "placeholder", !.notice = "exported"]
     ELSE [waitForScreenshotOrCancel(y) EXCEPT !.uiHidden = TRUE,
                                               !.doc = "awaiting"]

\* cropScreenshotToCanvas: img.onload and img.onerror both resolve, with the
\* cropped or with the original screenshot
cropScreenshotToCanvas(x, ok) ==
  [x EXCEPT !.uiHidden = FALSE, !.doc = "loading"]

\* generatePptx / generatePdf of src/content/content.js at the screenshot:
\* only img.onload resolves the awaited promise
awaitImageOnload(x, ok) ==
  IF ok THEN [x EXCEPT !.doc = "image", !.notice = "exported"]
  ELSE [x EXCEPT !.doc = "hung"]

\* generatePptx / generatePdf / generateMultiPagePptx /
\* generateMultiPagePdf of REVIEW.md at the screenshot: img.onload resolves
\* true, img.onerror resolves false
awaitImageLoaded(x, ok) ==
  [x EXCEPT !.doc = IF ok THEN "image" ELSE "placeholder",
            !.notice = "exported"]

\* The first capture of `tab` that waits for the hideForCapture response.
FirstHiding(jobs, tab) ==
  CHOOSE i \in 1..Len(jobs) :
    /\ jobs[i].tab = tab /\ jobs[i].stage = "hide"
    /\ \A j \in 1..(i - 1) : ~(jobs[j].tab = tab /\ jobs[j].stage = "hide")

RemoveAt(seq, i) == [j \in 1..(Len(seq) - 1) |-> IF j < i THEN seq[j] ELSE seq[j + 1]]

\* generatePresentation / generateMultiPagePresentation from the point where
\* the capture is armed: prepareCapture is sent, then the overlay is awaited
\* `dom` is the host page, `context` whether the extension context is still
\* valid (chrome.runtime.sendMessage throws when it is not).  Only the
\* content script of REVIEW.md has the all-pages scope.
StartExport(t, scope, dom, context) ==
  /\ cs[t].open
  /\ scope = "all" => ex[t].build = "REVIEW.md"
  /\ Len(Active(cs[t])) > 0
  /\ ex[t].doc \notin {"awaiting", "cropping", "loading"}
  /\ Len(wire.toBg) < MaxWire
  /\ ex' = [ex EXCEPT ![t] =
              IF scope = "current" THEN generatePresentation(@, dom, context)
              ELSE generateMultiPagePresentation(@, dom, context)]
  /\ wire' = IF ex'[t].doc = "awaiting"
             THEN [wire EXCEPT !.toBg = Append(@, Msg("prepareCapture", t, ""))]
             ELSE wire
  /\ last' = "StartExport"
  /\ UNCHANGED <<annVars, bg>>

\* The tab is reloaded while its export awaits the capture: the content
\* script starts anew with the state of its declarations (annotations are
\* loaded again from storage, which the capture does not look at); the
\* worker keeps what it has.
Reload(t) ==
  /\ ex[t].doc = "awaiting"
  /\ ex' = [ex EXCEPT ![t] = [ExInit EXCEPT !.build = ex[t].build]]
  /\ last' = "Reload"
  /\ UNCHANGED <<annVars, bg, wire>>

\* The image of cropScreenshotToCanvas has loaded or has failed to.
CropSettled(t, ok) ==
  /\ ex[t].doc = "cropping"
  /\ ex' = [ex EXCEPT ![t] = cropScreenshotToCanvas(@, ok)]
  /\ last' = "CropSettled"
  /\ UNCHANGED <<annVars, bg, wire>>

\* The image of the document generator has loaded or has failed to.
ImageSettled(t, ok) ==
  /\ ex[t].doc = "loading"
  /\ ex' = [ex EXCEPT ![t] = IF @.build = "content.js"
                             THEN awaitImageOnload(@, ok)
                             ELSE awaitImageLoaded(@, ok)]
  /\ last' = "ImageSettled"
  /\ UNCHANGED <<annVars, bg, wire>>

\* The user clicks Cancel on the overlay (which must be visible).
CancelClick(t) ==
  /\ ex[t].overlay = "shown"
  /\ Len(wire.toBg) < MaxWire
  /\ ex' = [ex EXCEPT ![t] = continueExport(onCancelClick(@))]
  /\ wire' = [wire EXCEPT !.toBg = Append(@, Msg("cancelCapture", t, ""))]
  /\ last' = "CancelClick"
  /\ UNCHANGED <<annVars, bg>>

\* The content script of tab t handles the oldest message sent to it; the
\* response of hideForCapture travels back to the worker.
ContentReceive(t) ==
  /\ wire.toTab[t] # <<>>
  /\ LET message == Head(wire.toTab[t])
     IN /\ message.action = "hideForCapture" => Len(wire.toBg) < MaxWire
        /\ ex' = [ex EXCEPT ![t] = continueExport(onMessageContent(@, message))]
        /\ wire' = [wire EXCEPT
               !.toTab[t] = Tail(@),
               !.toBg = IF message.action = "hideForCapture"
                        THEN Append(@, Msg("hideResponse", t, "")) ELSE @]
  /\ last' = "ContentReceive"
  /\ UNCHANGED <<annVars, bg>>

\* The worker handles the oldest message sent to it: a request of a content
\* script, or the response that lets a capture go on to its 200 ms timer.
BackgroundReceive ==
  /\ wire.toBg # <<>>
  /\ LET request == Head(wire.toBg)
     IN bg' = IF request.action = "hideResponse"
              THEN IF \E i \in 1..Len(bg.jobs) :
                        bg.jobs[i].tab = request.tab /\ bg.jobs[i].stage = "hide"
                   THEN [bg EXCEPT !.jobs[FirstHiding(bg.jobs, request.tab)].stage = "timer"]
                   ELSE bg
              ELSE onMessageBackground(bg, request)
  /\ wire' = [wire EXCEPT !.toBg = Tail(@)]
  /\ last' = "BackgroundReceive"
  /\ UNCHANGED <<annVars, ex>>

\* A slow path that never finds a token in the session store.
onClickedCallbackForgetful(bw, tab, result) ==
  [bw EXCEPT !.w.toTab[tab] = Append(@, Msg("toggleSidebar", tab, ""))]

\* chrome.action.onClicked, slow path: the callback of
\* chrome.storage.session.get with the token it read (NoTab: none)
onClickedCallback(bw, tab, result) ==
  IF result # NoTab /\ result = tab
  THEN captureAndSend([bw EXCEPT !.b.pendingCapture = result], tab)
  ELSE [bw EXCEPT !.w.toTab[tab] = Append(@, Msg("toggleSidebar", tab, ""))]

\* chrome.action.onClicked: the user clicks the extension icon on tab t.
\* The session store answers reads in the order of the requests, so the
\* read returns the token the store holds when it is issued.
IconClick(t) ==
  /\ Len(wire.toTab[t]) < MaxWire
  /\ Len(bg.jobs) < MaxJobs
  /\ Len(bg.lookups) < MaxJobs
  /\ IF bg.pendingCapture = t
     THEN LET r == captureAndSend([b |-> bg, w |-> wire], t)
          IN bg' = r.b /\ wire' = r.w
     ELSE \* chrome.storage.session.get is issued
          /\ bg' = [bg EXCEPT !.lookups = Append(@, [tab |-> t, result |-> bg.session])]
          /\ wire' = wire
  /\ last' = "IconClick"
  /\ UNCHANGED <<annVars, ex>>

\* chrome.action.onClicked: the callback of chrome.storage.session.get runs
LookupCallback ==
  /\ bg.lookups # <<>>
  /\ LET lookup == Head(bg.lookups)
         r == onClickedCallback([b |-> [bg EXCEPT !.lookups = Tail(@)], w |-> wire],
                                lookup.tab, lookup.result)
     IN /\ Len(wire.toTab[lookup.tab]) < MaxWire
        /\ Len(bg.jobs) < MaxJobs
        /\ bg' = r.b
        /\ wire' = r.w
  /\ last' = "LookupCallback"
  /\ UNCHANGED <<annVars, ex>>

\* captureAndSend: the callback of captureVisibleTab, with or without
\* chrome.runtime.lastError
CaptureDone(i, kind) ==
  /\ i \in 1..Len(bg.jobs)
  /\ bg.jobs[i].stage = "timer"
  /\ Len(wire.toTab[bg.jobs[i].tab]) < MaxWire
  /\ wire' = [wire EXCEPT !.toTab[bg.jobs[i].tab] =
                 Append(@, Msg("screenshotResult", bg.jobs[i].tab, kind))]
  /\ bg' = clearPendingCapture([bg EXCEPT !.jobs = RemoveAt(@, i)])
  /\ last' = "CaptureDone"
  /\ UNCHANGED <<annVars, ex>>

\* The browser stops the idle service worker: its memory is gone, the
\* session storage and the badge stay.
WorkerRestart ==
  /\ bg.jobs = <<>> /\ bg.lookups = <<>>
  /\ bg.pendingCapture # NoTab
  /\ bg' = [bg EXCEPT !.pendingCapture = NoTab]
  /\ last' = "WorkerRestart"
  /\ UNCHANGED <<annVars, wire, ex>>

\* Annotations persisted by earlier sessions (their clock ticks are past).
OldAnnotation(n, loc, comment) == [id |-> n, url |-> loc, comment |-> comment]

\* What earlier sessions may have left in chrome.storage.local.
InitStores ==
  { <<>>,
    \* written by the earlier release, which keyed by pathname alone
    << [k |-> "/r/1", v |-> << OldAnnotation(0, Loc("/r/1", "?p"), "L") >>] >>,
    << [k |-> "/r/1?p", v |-> << OldAnnotation(1, Loc("/r/1", "?p"), "M") >>] >> }

InitPageStores ==
  { <<>>,
    << [k |-> "/r/2", v |-> << OldAnnotation(1, Loc("/r/2", ""), "M") >>] >> }

InitWith(stores) ==
  /\ cs = [t \in Tabs |-> Closed]
  /\ store \in stores
  /\ queue = <<>>
  /\ now = 1
  /\ bg = BgInit /\ wire = WireInit /\ ex = [t \in Tabs |-> ExInit]
  /\ last = "init" /\ fault = FALSE /\ poll = PollInit /\ shots = ShotsInit /\ out = NoOut

Init == InitWith(InitStores)

NextWith(locs) ==
  \/ TabNext(MainTab, locs)
  \/ LoadCallback
  \/ SaveCallback

\* One tab on a report whose pages differ in the query string.
Next == NextWith(QueryLocs)

Spec == Init /\ [][Next]_vars

\* One tab on pages that differ in the path.
InitPages == InitWith(InitPageStores)

NextPages == NextWith(PathLocs)

SpecPages == InitPages /\ [][NextPages]_vars

\* Two tabs share the store; each stays on the page it was opened on.
InitTabs == InitWith({<<>>})

NextTabs ==
  \/ \E t \in Tabs : \E loc \in PathLocs : OpenTab(t, loc)
  \/ \E t \in Tabs : DrawNext(t)
  \/ LoadCallback
  \/ SaveCallback

SpecTabs == InitTabs /\ [][NextTabs]_vars

\* A session on one page that has created `n` annotations so far and has
\* cleared them all: the counter stands at n, the list is empty again.
Cleared(n) ==
  [Closed EXCEPT !.open = TRUE, !.lastPageKey = getPageKey(Closed.location),
                 !.allAnnotationsCache =
                    [isNull |-> FALSE,
                     map |-> <<[k |-> getPageKey(Closed.location), v |-> 1]>>],
                 !.annotationIdCounter = n]

\* Young sessions and sessions close to the hundredth annotation.
InitId ==
  /\ \E n \in {0, IdK - MaxCreate + 1} :
        cs = [t \in Tabs |-> IF t = MainTab THEN Cleared(n) ELSE Closed]
  /\ store = <<[k |-> getPageKey(Closed.location), v |-> <<>>]>>
  /\ queue = <<>>
  /\ now = 1
  /\ bg = BgInit /\ wire = WireInit /\ ex = [t \in Tabs |-> ExInit]
  /\ last = "init" /\ fault = FALSE /\ poll = PollInit /\ shots = ShotsInit /\ out = NoOut

\* MaxCreate more annotations, at most, from where the session stands.
NextId ==
  \/ ToggleAnnotationMode(MainTab)
  \/ \E cap \in {MaxCreate, IdK + 1} :
        /\ cap - MaxCreate <= cs[MainTab].annotationIdCounter
        /\ HandleMouseDown(MainTab, cap)
  \/ \E big \in BOOLEAN : HandleMouseUp(MainTab, big)
  \/ \E comment \in Comments(cs[MainTab].annotationIdCounter) : PromptOk(MainTab, comment)
  \/ PromptCancel(MainTab)
  \/ EditNext(MainTab)
  \/ Tick

SpecId == InitId /\ [][NextId]_vars

\* Two tabs, each with a loaded page that holds one annotation, and the
\* worker between them.
CaptureStore == <<[k |-> "/r/1", v |-> << OldAnnotation(1, Loc("/r/1", ""), "M") >>]>>

InitCapture ==
  /\ cs = [t \in Tabs |-> Normalize(LoadFresh(Loc("/r/1", ""), CaptureStore).c)]
  /\ store = CaptureStore
  /\ queue = <<>>
  /\ now = 1
  /\ bg = BgInit /\ wire = WireInit /\ ex = [t \in Tabs |-> ExInit]
  /\ last = "init" /\ fault = FALSE /\ poll = PollInit /\ shots = ShotsInit /\ out = NoOut

NextCapture ==
  \/ \E t \in Tabs : StartExport(t, "current", FullDom, TRUE)
  \/ \E t \in Tabs : Reload(t)
  \/ \E t \in Tabs : \E ok \in BOOLEAN : CropSettled(t, ok)
  \/ \E t \in Tabs : \E ok \in BOOLEAN : ImageSettled(t, ok)
  \/ \E t \in Tabs : CancelClick(t)
  \/ \E t \in Tabs : ContentReceive(t)
  \/ \E t \in Tabs : IconClick(t)
  \/ BackgroundReceive
  \/ LookupCallback
  \/ \E i \in 1..MaxJobs : \E kind \in {"image", "error"} : CaptureDone(i, kind)
  \/ WorkerRestart

SpecCapture == InitCapture /\ [][NextCapture]_vars

\* ------------------------------------------------- document generators
\* The comments of a one-page export, as generatePresentation numbers them:
\* 1..n, each one line tall.
MaxComments == 45

NumberedComments(n) == [i \in 1..n |-> i]

\* `pages` with `number` placed on the last page
PlaceOnLast(pages, number) ==
  [pages EXCEPT ![Len(pages)] = Append(@, number)]

\* generatePptx, the comments loop; lengths in hundredths of an inch
RECURSIVE PptxLoop(_, _, _, _)
PptxLoop(comments, i, slides, commentsOnSlide) ==
  LET slideH == 750
      margin == 30
      titleH == 40
      contentY == margin + titleH + 20
      contentH == slideH - contentY - margin
      commentsListH == contentH - 35
      commentLineH == 28
      maxCommentsPerSlide == commentsListH \div commentLineH
  IN IF i > Len(comments) THEN slides
     ELSE IF commentsOnSlide >= maxCommentsPerSlide
     THEN PptxLoop(comments, i + 1,
                   PlaceOnLast(Append(slides, <<>>), comments[i]), 1)
     ELSE PptxLoop(comments, i + 1,
                   PlaceOnLast(slides, comments[i]), commentsOnSlide + 1)

\* generatePptx(screenshot, comments, pageName): the slides, each with the
\* numbers of the comments placed on it
generatePptx(comments) == PptxLoop(comments, 1, << <<>> >>, 0)

\* A comments loop that starts every continuation page where the first
\* page starts its list.
RECURSIVE PdfLoopSameStart(_, _, _, _)
PdfLoopSameStart(comments, i, pages, currentY) ==
  LET pageH == 210
      margin == 10
      lineHeight == 8
  IN IF i > Len(comments) THEN pages
     ELSE IF currentY + lineHeight > pageH - margin
     THEN PdfLoopSameStart(comments, i + 1,
                  PlaceOnLast(Append(pages, <<>>), comments[i]),
                  39 + lineHeight)
     ELSE PdfLoopSameStart(comments, i + 1,
                  PlaceOnLast(pages, comments[i]), currentY + lineHeight)

\* generatePdf, the comments loop; lengths in mm, every comment one line
\* (Math.max(lineHeight, lines.length * 4) = lineHeight)
RECURSIVE PdfLoop(_, _, _, _)
PdfLoop(comments, i, pages, currentY) ==
  LET pageH == 210
      margin == 10
      lineHeight == 8
  IN IF i > Len(comments) THEN pages
     ELSE IF currentY + lineHeight > pageH - margin
     THEN PdfLoop(comments, i + 1,
                  PlaceOnLast(Append(pages, <<>>), comments[i]),
                  margin + 10 + 10 + lineHeight)
     ELSE PdfLoop(comments, i + 1,
                  PlaceOnLast(pages, comments[i]), currentY + lineHeight)

\* generatePdf(screenshot, comments, pageName): the pages, each with the
\* numbers of the comments placed on it; the list starts at contentY + 12
generatePdf(comments) ==
  LET margin == 10
      titleH == 12
      contentY == margin + titleH + 5
  IN PdfLoop(comments, 1, << <<>> >>, contentY + 12)

\* A one-page export of n comments is about to be generated.
InitPaginate ==
  /\ cs = [t \in Tabs |-> Normalize(LoadFresh(Loc("/r/1", ""), CaptureStore).c)]
  /\ store = CaptureStore
  /\ queue = <<>>
  /\ now = 1
  /\ bg = BgInit /\ wire = WireInit /\ ex = [t \in Tabs |-> ExInit]
  /\ last = "init" /\ fault = FALSE /\ poll = PollInit /\ shots = ShotsInit
  /\ \E n \in 1..MaxComments : out = [format |-> "none", n |-> n]

GeneratePptx ==
  /\ out.format = "none"
  /\ out' = [format |-> "ppt", n |-> out.n,
             pages |-> generatePptx(NumberedComments(out.n))]
  /\ last' = "GeneratePptx"
  /\ UNCHANGED <<cs, store, queue, now, bg, wire, ex, shots, fault, poll>>

GeneratePdf ==
  /\ out.format = "none"
  /\ out' = [format |-> "pdf", n |-> out.n,
             pages |-> generatePdf(NumberedComments(out.n))]
  /\ last' = "GeneratePdf"
  /\ UNCHANGED <<cs, store, queue, now, bg, wire, ex, shots, fault, poll>>

NextPaginate == GeneratePptx \/ GeneratePdf

SpecPaginate == InitPaginate /\ [][NextPaginate]_vars

\* ------------------------------------------------------ all-pages export
MaxBucket == 22

\* `count` annotations of the page at `loc`, as earlier sessions left them;
\* their ids start after `base`.
OldBucket(loc, base, count) ==
  [n \in 1..count |-> OldAnnotation(base + n, loc, "M")]

\* chrome.storage.local with up to MaxBucket annotations on each of /r/1
\* and /r/2 and at most one on /r/1?p (a page whose annotations were
\* deleted keeps an empty bucket).
MultiStores ==
  UNION { { << [k |-> "/r/1", v |-> OldBucket(Loc("/r/1", ""), 0, a)],
               [k |-> "/r/1?p", v |-> OldBucket(Loc("/r/1", "?p"), 2 * IdK, c)],
               [k |-> "/r/2", v |-> OldBucket(Loc("/r/2", ""), IdK, b)] >> :
            a \in 0..MaxBucket, b \in 0..MaxBucket } : c \in 0..1 }

\* A page list whose comment numbers start at 1 on every page.
RECURSIVE pageDataListPerPage(_, _, _)
pageDataListPerPage(c, pages, globalNumber) ==
  IF pages = <<>> THEN <<>>
  ELSE LET pageAnnotations == BucketOr(CacheBuckets(c), Head(pages).key)
       IN << [key |-> Head(pages).key, pageName |-> Head(pages).name,
              comments |-> [n \in 1..Len(pageAnnotations) |->
                              [number |-> n,
                               comment |-> pageAnnotations[n].comment]]] >>
          \o pageDataListPerPage(c, Tail(pages), 1)

\* generateMultiPagePresentation: pageDataList, built from the pages of
\* getAnnotatedPages() with a counter that starts at globalNumber
RECURSIVE pageDataList(_, _, _)
pageDataList(c, pages, globalNumber) ==
  IF pages = <<>> THEN <<>>
  ELSE LET pageAnnotations == BucketOr(CacheBuckets(c), Head(pages).key)
       IN << [key |-> Head(pages).key, pageName |-> Head(pages).name,
              comments |-> [n \in 1..Len(pageAnnotations) |->
                              [number |-> globalNumber + n - 1,
                               comment |-> pageAnnotations[n].comment]]] >>
          \o pageDataList(c, Tail(pages), globalNumber + Len(pageAnnotations))

\* generateMultiPagePptx(pageDataList): for every page its slides, each with
\* the numbers of the comments placed on it; the comments loop of a page is
\* the loop of generatePptx, with commentsOnSlide declared inside the loop
\* over the pages
generateMultiPagePptx(list) ==
  [p \in 1..Len(list) |->
     [key |-> list[p].key, pageName |-> list[p].pageName,
      slides |-> PptxLoop([n \in 1..Len(list[p].comments) |->
                             list[p].comments[n].number], 1, << <<>> >>, 0)]]

\* exportPages with scope 'all' and format 'ppt', from the point where the
\* capture has been settled
GenerateMultiPagePptx(t) ==
  /\ cs[t].open
  /\ Len(Active(cs[t])) > 0
  /\ "all" \in showScopeDialog(cs[t])
  /\ out = NoOut
  /\ out' = [format |-> "ppt-all",
             pages |-> generateMultiPagePptx(
                         pageDataList(cs[t], getAnnotatedPages(cs[t]), 1))]
  /\ last' = "GenerateMultiPagePptx"
  /\ UNCHANGED <<cs, store, queue, now, bg, wire, ex, shots, fault, poll>>

InitMulti == InitWith(MultiStores)

NextMulti ==
  \/ \E loc \in PathLocs : OpenTab(MainTab, loc)
  \/ LoadCallback
  \/ GenerateMultiPagePptx(MainTab)

SpecMulti == InitMulti /\ [][NextMulti]_vars

\* ----------------------------------------------------------------- CSV
\* Text is a sequence of characters.  "a" stands for any character that
\* means nothing to CSV; the other three are the ones buildCsvRows tests.
Chars == {"a", ",", "\"", "\n"}

MaxField == 2

\* The texts of a page name or a comment, up to MaxField characters.
Fields == UNION {[1..n -> Chars] : n \in 0..MaxField}

\* Comments of a second page.
SecondComments == { <<"a">>, <<"\"", "\"">>, <<"\n", ",">> }

Digit == <<"0", "1", "2", "3", "4", "5", "6", "7", "8", "9">>

\* String(cell) of a row number
RECURSIVE NumStr(_)
NumStr(n) ==
  IF n < 10 THEN <<Digit[n + 1]>>
  ELSE NumStr(n \div 10) \o <<Digit[(n % 10) + 1]>>

\* date.toLocaleDateString(): digits and separators of the locale
DateStr == <<"1", "/", "1", "/", "2", "6">>

\* buildCsvRows: const headers (each a run of plain characters)
Headers == << <<"No">>, <<"Page Name">>, <<"Date">>, <<"Comment">> >>

\* cellStr.replace(/"/g, '""')
RECURSIVE DoubleQuotes(_)
DoubleQuotes(cellStr) ==
  IF cellStr = <<>> THEN <<>>
  ELSE (IF Head(cellStr) = "\"" THEN <<"\"", "\"">> ELSE <<Head(cellStr)>>)
       \o DoubleQuotes(Tail(cellStr))

\* cellStr.includes(ch)
Includes(cellStr, ch) == \E i \in 1..Len(cellStr) : cellStr[i] = ch

\* A cell quoted without doubling the quotes inside it.
csvCellPlainQuotes(cellStr) ==
  IF Includes(cellStr, ",") \/ Includes(cellStr, "\"") \/ Includes(cellStr, "\n")
  THEN <<"\"">> \o cellStr \o <<"\"">>
  ELSE cellStr

\* buildCsvRows: the function mapped over the cells of a row
csvCell(cellStr) ==
  IF Includes(cellStr, ",") \/ Includes(cellStr, "\"") \/ Includes(cellStr, "\n")
  THEN <<"\"">> \o DoubleQuotes(cellStr) \o <<"\"">>
  ELSE cellStr

\* Array.prototype.join(sep) on texts
RECURSIVE Join(_, _)
Join(texts, sep) ==
  IF texts = <<>> THEN <<>>
  ELSE IF Len(texts) = 1 THEN texts[1]
  ELSE texts[1] \o <<sep>> \o Join(Tail(texts), sep)

\* buildCsvRows: the cells of a row of allRows, as String(cell) gives them
csvCells(row) == <<NumStr(row.no), row.name, DateStr, row.comment>>

\* buildCsvRows(pages): the text returned, headers first
csvContent(pages) ==
  LET allRows == buildCsvRows(pages, 1)
  IN Join(<<Join(Headers, ",")>> \o
          [r \in 1..Len(allRows) |->
             Join([k \in 1..4 |-> csvCell(csvCells(allRows[r])[k])], ",")],
          "\n")

\* The pages handed to buildCsvRows: a page with one annotation and a
\* second page with one.
InitCsv ==
  /\ cs = [t \in Tabs |-> Normalize(LoadFresh(Loc("/r/1", ""), CaptureStore).c)]
  /\ store = CaptureStore
  /\ queue = <<>>
  /\ now = 1
  /\ bg = BgInit /\ wire = WireInit /\ ex = [t \in Tabs |-> ExInit]
  /\ last = "init" /\ fault = FALSE /\ poll = PollInit /\ shots = ShotsInit
  /\ \E name \in Fields : \E comment \in Fields \ {<<>>} :
     \E second \in SecondComments :
        out = [format |-> "none",
               pages |-> << [name |-> name,
                             annotations |-> <<[comment |-> comment]>>],
                            [name |-> <<"a">>,
                             annotations |-> <<[comment |-> second]>>] >>]

\* exportAnnotations: the CSV text is built
BuildCsv ==
  /\ out.format = "none"
  /\ out' = [format |-> "csv", pages |-> out.pages,
             text |-> csvContent(out.pages)]
  /\ last' = "BuildCsv"
  /\ UNCHANGED <<cs, store, queue, now, bg, wire, ex, shots, fault, poll>>

NextCsv == BuildCsv

SpecCsv == InitCsv /\ [][NextCsv]_vars

\* One tab running either content script, on any host page, with or without
\* a valid extension context, exporting in either scope; the worker as
\* above.
InitExport ==
  /\ cs = [t \in Tabs |-> Normalize(LoadFresh(Loc("/r/1", ""), CaptureStore).c)]
  /\ store = CaptureStore
  /\ queue = <<>>
  /\ now = 1
  /\ bg = BgInit /\ wire = WireInit
  /\ \E build \in Builds : ex = [t \in Tabs |-> [ExInit EXCEPT !.build = build]]
  /\ last = "init" /\ fault = FALSE /\ poll = PollInit /\ shots = ShotsInit /\ out = NoOut

NextExport ==
  \/ \E scope \in Scopes : \E dom \in Doms : \E context \in BOOLEAN :
        StartExport(MainTab, scope, dom, context)
  \/ Reload(MainTab)
  \/ \E ok \in BOOLEAN : CropSettled(MainTab, ok)
  \/ \E ok \in BOOLEAN : ImageSettled(MainTab, ok)
  \/ CancelClick(MainTab)
  \/ ContentReceive(MainTab)
  \/ IconClick(MainTab)
  \/ BackgroundReceive
  \/ LookupCallback
  \/ \E i \in 1..MaxJobs : \E kind \in {"image", "error"} : CaptureDone(i, kind)
  \/ WorkerRestart

SpecExport == InitExport /\ [][NextExport]_vars

\* --------------------------------------------------- the screenshot cache
\* screenshotCache maps a page key to the image last captured for it, in
\* insertion order; every content script keeps one in memory and writes the
\* whole of it to chrome.storage.local under 'screenshotCache'.
ShotLimit == 20
Images == {"imgA", "imgB"}
NoLoad == [on |-> FALSE, set |-> FALSE, value |-> <<>>]

\* cacheCurrentScreenshot, the response callback: store the image, then
\* delete keys[0] when more than 20 keys are held
cachePut(cache, key, image) ==
  LET put == Put(cache, key, image)
  IN IF Len(put) > ShotLimit THEN Del(put, put[1].k) ELSE put

\* generateMultiPagePresentation: screenshotCache[currentKey] =
\* currentScreenshot
exportPut(cache, key, image) == Put(cache, key, image)

\* loadScreenshotCache, the storage callback
loadScreenshotCacheCallback(cache, ok, result) ==
  IF ok /\ result.set THEN result.value ELSE cache

\* chrome.storage.local.set({ screenshotCache })
Persist(sh, t) == [sh EXCEPT !.disk = sh.mem[t], !.diskSet = TRUE]

\* The worker answers request i with an image: the response callback runs.
CacheAnswer(i, image) ==
  /\ i \in 1..Len(shots.asks)
  /\ LET ask == shots.asks[i]
         put == [shots EXCEPT
                   !.mem[ask.tab] = cachePut(@, ask.key, image),
                   !.asks = RemoveAt(@, i)]
     IN shots' = Persist(put, ask.tab)
  /\ last' = "CacheAnswer"
  /\ UNCHANGED <<cs, store, queue, now, bg, wire, ex, out, fault, poll>>

\* The worker answers with { error } or the message fails: nothing is put.
CacheFail(i) ==
  /\ i \in 1..Len(shots.asks)
  /\ shots' = [shots EXCEPT !.asks = RemoveAt(@, i)]
  /\ last' = "CacheFail"
  /\ UNCHANGED <<cs, store, queue, now, bg, wire, ex, out, fault, poll>>

\* The all-pages export has its image of the current page and refreshes the
\* cache with it.
ExportPut(t, image) ==
  /\ Idle(t) /\ shots.n < MaxPuts
  /\ Len(Active(cs[t])) > 0
  /\ LET put == [shots EXCEPT
                   !.mem[t] = exportPut(@, getPageKey(cs[t].location), image),
                   !.n = @ + 1]
     IN shots' = Persist(put, t)
  /\ last' = "ExportPut"
  /\ UNCHANGED <<cs, store, queue, now, bg, wire, ex, out, fault, poll>>

\* loadScreenshotCache's storage callback runs.
LoadShotsCallback(t, ok) ==
  /\ shots.loads[t].on
  /\ shots' = [shots EXCEPT
                 !.mem[t] = loadScreenshotCacheCallback(@, ok, shots.loads[t]),
                 !.loads[t] = NoLoad]
  /\ last' = "LoadShotsCallback"
  /\ UNCHANGED <<cs, store, queue, now, bg, wire, ex, out, fault, poll>>

\* The key of report page i, and the pages visited: the two oldest of a
\* full cache and one page beyond it.
PageKey(i) == "/r/" \o ToString(i)
ProbePages == {1, 2, ShotLimit + 1}
ProbeLocs == {Loc(PageKey(i), "") : i \in ProbePages}

\* One annotation on each page visited.
ShotStore ==
  LET pages == <<1, 2, ShotLimit + 1>>
  IN [i \in 1..Len(pages) |->
        [k |-> PageKey(pages[i]),
         v |-> << OldAnnotation(i, Loc(PageKey(pages[i]), ""), "M") >>]]

\* The sizes the persisted cache starts with: empty, one page, one below
\* the limit, and full.
PrefillSizes == {0, 1, ShotLimit - 1, ShotLimit}

\* What earlier puts have left persisted: the pages 1..n, oldest first.
Prefilled(n) == [i \in 1..n |-> [k |-> PageKey(i), v |-> "imgA"]]

\* One tab whose script has just started on a report with annotated pages,
\* its cache load under way, over a cache of any size up to the limit.
InitShots ==
  /\ cs = [t \in Tabs |->
             IF t = MainTab
             THEN Normalize(LoadFresh(Loc(PageKey(1), ""), ShotStore).c)
             ELSE Closed]
  /\ store = ShotStore
  /\ queue = <<>>
  /\ now = 1
  /\ bg = BgInit /\ wire = WireInit /\ ex = [t \in Tabs |-> ExInit]
  /\ last = "init" /\ fault = FALSE /\ poll = PollInit /\ out = NoOut
  /\ \E n \in PrefillSizes :
       shots = [ShotsInit EXCEPT
                  !.worker = TRUE,
                  !.disk = Prefilled(n), !.diskSet = (n > 0),
                  !.loads[MainTab] = [on |-> TRUE, set |-> (n > 0),
                                      value |-> Prefilled(n)]]

NextShots ==
  \/ \E loc \in ProbeLocs : Navigate(MainTab, loc)
  \/ NavigationTick(MainTab)
  \/ \E i \in 1..MaxPuts : \E image \in Images : CacheAnswer(i, image)
  \/ \E i \in 1..MaxPuts : CacheFail(i)
  \/ \E image \in Images : ExportPut(MainTab, image)
  \/ \E ok \in BOOLEAN : LoadShotsCallback(MainTab, ok)

SpecShots == InitShots /\ [][NextShots]_vars

\* One tab from its start on a report whose pages differ in the path, with
\* the worker answering captureForCache.
InitCache ==
  /\ cs = [t \in Tabs |-> Closed]
  /\ store \in InitPageStores
  /\ queue = <<>>
  /\ now = 1
  /\ bg = BgInit /\ wire = WireInit /\ ex = [t \in Tabs |-> ExInit]
  /\ last = "init" /\ fault = FALSE /\ poll = PollInit /\ out = NoOut
  /\ shots = [ShotsInit EXCEPT !.worker = TRUE]

NextCache ==
  \/ \E loc \in PathLocs : OpenTab(MainTab, loc)
  \/ \E loc \in PathLocs : Navigate(MainTab, loc)
  \/ NavigationTick(MainTab)
  \/ ToggleAnnotationMode(MainTab)
  \/ HandleMouseDown(MainTab, MaxCreate - 2)
  \/ HandleMouseUp(MainTab, TRUE)
  \/ \E comment \in Comments(cs[MainTab].annotationIdCounter) :
        PromptOk(MainTab, comment)
  \/ \E id \in IdsOf(Active(cs[MainTab])) : DeleteRequest(MainTab, id)
  \/ DeleteConfirm(MainTab)
  \/ LoadCallback
  \/ SaveCallback
  \/ \E i \in 1..MaxPuts : \E image \in Images : CacheAnswer(i, image)
  \/ \E i \in 1..MaxPuts : CacheFail(i)
  \/ \E image \in Images : ExportPut(MainTab, image)

SpecCache == InitCache /\ [][NextCache]_vars

\* One tab from its start, on pages that differ in the path, over a storage
\* area that may fail.
NextFault ==
  \/ \E loc \in PathLocs : OpenTab(MainTab, loc)
  \/ \E loc \in PathLocs : Navigate(MainTab, loc)
  \/ NavigationTick(MainTab)
  \/ ToggleAnnotationMode(MainTab)
  \/ HandleMouseDown(MainTab, MaxCreate - 1)
  \/ HandleMouseUp(MainTab, TRUE)
  \/ \E comment \in Comments(cs[MainTab].annotationIdCounter) :
        PromptOk(MainTab, comment)
  \/ \E id \in IdsOf(Active(cs[MainTab])) : DeleteRequest(MainTab, id)
  \/ DeleteConfirm(MainTab)
  \/ LoadCallback
  \/ SaveCallback
  \/ LoadFailed
  \/ SaveReadFailed
  \/ StorageFault

SpecFault == InitPages /\ [][NextFault]_vars

\* One tab from its start whose only events are navigations of the host
\* application, the ticks of the watcher and the storage callbacks.
NextWatch ==
  \/ \E loc \in PathLocs : OpenTab(MainTab, loc)
  \/ \E loc \in PathLocs \cup QueryLocs : Navigate(MainTab, loc)
  \/ NavigationTick(MainTab)
  \/ LoadCallback
  \/ SaveCallback

SpecWatch == InitPages /\ [][NextWatch]_vars

\* ------------------------------------------------------- crop arithmetic
\* JavaScript numbers that are not whole: a fraction n/d in lowest terms.
\* (The rounding of doubles, below one part in 10^15, is left out.)
MaxViewport == 4

RECURSIVE GCD(_, _)
GCD(a, b) == IF b = 0 THEN a ELSE GCD(b, a % b)

Frac(n, d) ==
  LET g == IF n = 0 THEN d ELSE GCD(n, d)
  IN [n |-> n \div g, d |-> d \div g]
Whole(k) == Frac(k, 1)
Times(a, b) == Frac(a.n * b.n, a.d * b.d)
Over(a, b) == Frac(a.n * b.d, a.d * b.n)

\* canvas.width = value: the value is converted to an integer by truncation
Trunc(a) == a.n \div a.d

\* cropScreenshotToCanvas with the source rectangle scaled by the device
\* pixel ratio alone
cropTransformByRatio(build, rect, dpr, img, inner) ==
  [source |-> [x |-> Times(Whole(rect.left), dpr),
               y |-> Times(Whole(rect.top), dpr),
               width |-> Times(Whole(rect.width), dpr),
               height |-> Times(Whole(rect.height), dpr)],
   canvas |-> [width |-> Trunc(Times(Whole(rect.width), dpr)),
               height |-> Trunc(Times(Whole(rect.height), dpr))]]

\* cropScreenshotToCanvas, img.onload: the arguments of ctx.drawImage and
\* the size of the canvas it draws into
cropTransform(build, rect, dpr, img, inner) ==
  LET scaleX == IF build = "content.js"
                THEN Over(Whole(img.width), Times(Whole(inner.width), dpr))
                ELSE Over(Whole(img.width), Whole(inner.width))
      scaleY == IF build = "content.js"
                THEN Over(Whole(img.height), Times(Whole(inner.height), dpr))
                ELSE Over(Whole(img.height), Whole(inner.height))
      Src(v, scale) == IF build = "content.js"
                       THEN Times(Times(Whole(v), dpr), scale)
                       ELSE Times(Whole(v), scale)
  IN [source |-> [x |-> Src(rect.left, scaleX),
                  y |-> Src(rect.top, scaleY),
                  width |-> Src(rect.width, scaleX),
                  height |-> Src(rect.height, scaleY)],
      canvas |-> [width |-> Trunc(Times(Whole(rect.width), dpr)),
                  height |-> Trunc(Times(Whole(rect.height), dpr))]]

\* window.devicePixelRatio || 1
Ratios == {Whole(1), Frac(3, 2), Whole(2)}

\* window.innerWidth x window.innerHeight when the image has loaded
Viewports ==
  {[width |-> w, height |-> h] : w \in {2, MaxViewport}, h \in {2, 3}}

\* The images captureVisibleTab may have produced for a viewport: of the
\* viewport at one, one and a half or two image pixels per CSS pixel (the
\* zoom or the window may have changed since the capture).
ImagesOf(inner) ==
  {[width |-> Trunc(Times(Whole(inner.width), k)),
    height |-> Trunc(Times(Whole(inner.height), k))] : k \in Ratios}

\* canvasElement.getBoundingClientRect() of an element inside the viewport
RectsIn(inner) ==
  {[left |-> l, top |-> t, width |-> w, height |-> h] :
      l \in 0..(inner.width - 1), t \in {0, 1},
      w \in 1..inner.width, h \in {1, inner.height}}
  \cap {r \in [left : 0..inner.width, top : 0..inner.height,
                width : 1..inner.width, height : 1..inner.height] :
           r.left + r.width <= inner.width /\ r.top + r.height <= inner.height}

\* img.onload of cropScreenshotToCanvas runs in either build, once for the
\* image of an export.
Crop(build, inner, dpr, img, rect) ==
  /\ out = NoOut
  /\ out' = [format |-> "crop", build |-> build, inner |-> inner, dpr |-> dpr,
             img |-> img, rect |-> rect,
             draw |-> cropTransform(build, rect, dpr, img, inner)]
  /\ last' = "Crop"
  /\ UNCHANGED <<cs, store, queue, now, bg, wire, ex, shots, fault, poll>>

InitCrop == InitWith({<<>>})

NextCrop ==
  \E build \in Builds : \E inner \in Viewports : \E dpr \in Ratios :
    \E img \in ImagesOf(inner) : \E rect \in RectsIn(inner) :
      Crop(build, inner, dpr, img, rect)

SpecCrop == InitCrop /\ [][NextCrop]_vars

\* ------------------------------------------------------ drawing gestures
\* The pointer positions looked at, on either axis; the texts typed into the
\* prompt, as sequences of characters.
ThresholdPx == 10
Coords == {0, 9, 10}
Tools == {"rectangle", "circle", "line", "arrow", "freehand"}
Texts == { <<>>, <<" ">>, <<"a">>, <<" ", "a", " ">> }

Abs(n) == IF n < 0 THEN 0 - n ELSE n
Min2(a, b) == IF a < b THEN a ELSE b
Max2(a, b) == IF a < b THEN b ELSE a

\* String.prototype.trim
RECURSIVE TrimLeft(_)
TrimLeft(text) ==
  IF text # <<>> /\ Head(text) = " " THEN TrimLeft(Tail(text)) ELSE text
RECURSIVE TrimRight(_)
TrimRight(text) ==
  IF text # <<>> /\ text[Len(text)] = " "
  THEN TrimRight(SubSeq(text, 1, Len(text) - 1)) ELSE text
Trim(text) == TrimRight(TrimLeft(text))

\* showPrompt: OK resolves with the value, or null when the value is empty;
\* Cancel resolves with null
showPrompt(button, value) ==
  IF button = "ok" /\ value # <<>>
  THEN [isNull |-> FALSE, text |-> value]
  ELSE [isNull |-> TRUE, text |-> <<>>]

\* handleMouseUp: comment && comment.trim()
Confirmed(comment) == ~ comment.isNull /\ Trim(comment.text) # <<>>

\* handleMouseDown: the start point and the style of the temporary box
handleMouseDown(tool, x, y) ==
  [NoGesture EXCEPT !.tool = tool, !.startX = x, !.startY = y,
                    !.pageX = x, !.pageY = y, !.left = x, !.top = y,
                    !.minX = x, !.maxX = x, !.minY = y, !.maxY = y]

\* updateAnnotationVisual: the ends of the line or arrow drawn inside the
\* box, (x1, y1) the tail and (x2, y2) the head
updateAnnotationVisual(width, height) ==
  [x1 |-> IF width < 0 THEN Abs(width) ELSE 0,
   y1 |-> IF height < 0 THEN Abs(height) ELSE 0,
   x2 |-> IF width < 0 THEN 0 ELSE Abs(width),
   y2 |-> IF height < 0 THEN 0 ELSE Abs(height)]

\* handleMouseMove
handleMouseMove(g, x, y) ==
  LET width == x - g.startX
      height == y - g.startY
  IN IF g.tool = "freehand"
     THEN LET minX == Min2(g.minX, x)
              maxX == Max2(g.maxX, x)
              minY == Min2(g.minY, y)
              maxY == Max2(g.maxY, y)
          IN [g EXCEPT !.pageX = x, !.pageY = y,
                       !.minX = minX, !.maxX = maxX,
                       !.minY = minY, !.maxY = maxY,
                       !.left = minX, !.top = minY,
                       !.width = maxX - minX, !.height = maxY - minY]
     ELSE [g EXCEPT !.pageX = x, !.pageY = y,
                    !.width = Abs(width), !.height = Abs(height),
                    !.left = IF width < 0 THEN x ELSE g.startX,
                    !.top = IF height < 0 THEN y ELSE g.startY,
                    !.live = updateAnnotationVisual(width, height)]

\* finishedAnnotation.getBoundingClientRect(): the size of the box as styled
\* (the style sheet adds nothing to it), 0 x 0 once the box has left the
\* document
BoundingRect(g, attached) ==
  IF attached THEN [width |-> g.width, height |-> g.height]
  ELSE [width |-> 0, height |-> 0]

\* handleMouseUp with the size test passing when either side is long enough
TooSmallBothSides(rect) == rect.width < ThresholdPx /\ rect.height < ThresholdPx

\* handleMouseUp: rect.width < 10 || rect.height < 10
TooSmall(rect) == rect.width < ThresholdPx \/ rect.height < ThresholdPx

\* The geometry handleMouseUp stores with the annotation `id`.
NewShape(id, g) ==
  [id |-> id, tool |-> g.tool, x |-> g.left, y |-> g.top,
   width |-> g.rect.width, height |-> g.rect.height,
   startPoint |-> [x |-> g.startX, y |-> g.startY],
   endPoint |-> [x |-> g.endX, y |-> g.endY]]

\* getDirection without the stored points: always from the top left corner
\* to the bottom right one
getDirectionDefault(a) ==
  [x1 |-> 0, y1 |-> 0, x2 |-> a.width, y2 |-> a.height]

\* createAnnotationElement, getDirection: the ends of the line or arrow of
\* a stored annotation
getDirection(a) ==
  [x1 |-> IF a.startPoint.x <= a.endPoint.x THEN 0 ELSE a.width,
   y1 |-> IF a.startPoint.y <= a.endPoint.y THEN 0 ELSE a.height,
   x2 |-> IF a.startPoint.x <= a.endPoint.x THEN a.width ELSE 0,
   y2 |-> IF a.startPoint.y <= a.endPoint.y THEN a.height ELSE 0]

\* handleMouseDown with the pointer at (x, y) and `tool` selected
MouseDownAt(t, cap, tool, x, y) ==
  /\ Idle(t)
  /\ cs[t].isAnnotationMode
  /\ ~cs[t].currentAnnotation
  /\ cs[t].annotationIdCounter < cap
  /\ cs' = [cs EXCEPT ![t].currentAnnotation = TRUE,
                      ![t].dom = Append(@, [id |-> NoId, num |-> 0]),
                      ![t].gesture = handleMouseDown(tool, x, y)]
  /\ last' = "MouseDownAt"
  /\ UNCHANGED <<store, queue, now, capVars>>

\* handleMouseMove with the pointer at (x, y)
MouseMoveTo(t, x, y) ==
  /\ cs[t].open
  /\ cs[t].currentAnnotation
  /\ <<x, y>> # <<cs[t].gesture.pageX, cs[t].gesture.pageY>>
  /\ cs' = [cs EXCEPT ![t].gesture = handleMouseMove(@, x, y)]
  /\ last' = "MouseMoveTo"
  /\ UNCHANGED <<store, queue, now, capVars>>

\* handleMouseUp up to the prompt, the button released where the pointer is
MouseUp(t) ==
  /\ Idle(t)
  /\ cs[t].currentAnnotation
  /\ LET g == cs[t].gesture
         rect == BoundingRect(g, HasDrawingBox(cs[t].dom))
     IN IF TooSmall(rect)
        THEN cs' = [cs EXCEPT ![t].currentAnnotation = FALSE,
                             ![t].dom = RemoveFirstBox(@, NoId)]
        ELSE cs' = [cs EXCEPT ![t].currentAnnotation = FALSE,
                             ![t].modal = "prompt",
                             ![t].gesture = [g EXCEPT !.rect = rect,
                                                      !.endX = g.pageX,
                                                      !.endY = g.pageY]]
  /\ last' = "MouseUp"
  /\ UNCHANGED <<store, queue, now, capVars>>

\* handleMouseUp from the prompt on: OK or Cancel was clicked with `value`
\* in the text area
PromptResolved(t, button, value) ==
  /\ cs[t].open
  /\ cs[t].modal = "prompt"
  /\ LET comment == showPrompt(button, value)
     IN IF Confirmed(comment)
        THEN /\ Len(queue) < MaxQueue
             /\ LET w == handleMouseUpConfirmed(t, World(t), Trim(comment.text))
                    id == NewAnnotation(cs[t], Trim(comment.text)).id
                IN CommitAsk(t, [w EXCEPT !.c.shapes =
                                    Append(@, NewShape(id, cs[t].gesture))],
                             "PromptResolved", getPageKey(cs[t].location))
             /\ UNCHANGED now
        ELSE /\ cs' = [cs EXCEPT ![t].modal = "none",
                                 ![t].dom = RemoveFirstBox(@, NoId)]
             /\ last' = "PromptResolved"
             /\ UNCHANGED <<store, queue, now, capVars>>

\* One tab, loaded on a page without annotations, where the user draws.
InitGesture ==
  /\ cs = [t \in Tabs |->
             IF t = MainTab
             THEN Normalize(LoadFresh(Loc("/r/1", ""), <<>>).c)
             ELSE Closed]
  /\ store = <<>>
  /\ queue = <<>>
  /\ now = 1
  /\ bg = BgInit /\ wire = WireInit /\ ex = [t \in Tabs |-> ExInit]
  /\ last = "init" /\ fault = FALSE /\ poll = PollInit /\ shots = ShotsInit /\ out = NoOut

NextGesture ==
  \/ ToggleAnnotationMode(MainTab)
  \/ \E tool \in Tools : \E x, y \in Coords :
        MouseDownAt(MainTab, MaxCreate - 2, tool, x, y)
  \/ \E x, y \in Coords : MouseMoveTo(MainTab, x, y)
  \/ MouseUp(MainTab)
  \/ \E button \in {"ok", "cancel"} : \E value \in Texts :
        PromptResolved(MainTab, button, value)
  \/ \E loc \in PathLocs : Navigate(MainTab, loc)
  \/ NavigationTick(MainTab)

SpecGesture == InitGesture /\ [][NextGesture]_vars

\* ------------------------------------------------------------ the claims
\* Every annotation of `m` is in one bucket only, and that bucket's key is
\* the key of the page it was created on (under the current or the earlier,
\* pathname-only, key scheme).
OneBucketEach(m) ==
  /\ \A i, j \in 1..Len(m) : i # j => IdsOf(m[i].v) \cap IdsOf(m[j].v) = {}
  /\ \A i \in 1..Len(m) : \A n \in 1..Len(m[i].v) :
        m[i].k \in {getPageKey(m[i].v[n].url), legacyKeyOf(m[i].v[n].url)}

\* The boxes on screen that carry an annotation.
RenderedIds(c) == {c.dom[i].id : i \in 1..Len(c.dom)} \ {NoId}

\* C1: in every reachable state every annotation is in exactly one page-key
\* bucket of the all-pages cache and of persistent storage, keyed by the page
\* it was created under, and only the current page's bucket is rendered.
C1_OneBucketPerAnnotation ==
  LET c == cs[MainTab]
  IN /\ OneBucketEach(store)
     /\ (c.open /\ ~c.allAnnotationsCache.isNull) =>
          /\ OneBucketEach(CacheBuckets(c))
          /\ \A id \in RenderedIds(c) :
                /\ Has(c.allAnnotationsCache.map, c.lastPageKey)
                /\ id \in IdsOf(c.heap[Get(c.allAnnotationsCache.map, c.lastPageKey)])

\* C2: a page transition from oldKey to newKey persists the outgoing list
\* under oldKey, clears the boxes of the outgoing page, makes the bucket
\* stored for newKey the active list and leaves newKey's bucket as it was.
C2_TransitionSwapsBuckets ==
  [][ LET c == cs[MainTab]
          oldKey == c.lastPageKey
          newKey == getPageKey(c.location)
      IN (NavigationTick(MainTab) /\ ~c.allAnnotationsCache.isNull /\ queue = <<>>) =>
           /\ BucketOr(store', oldKey) = Active(c)
           /\ Active(cs'[MainTab]) = BucketOr(CacheBuckets(c), newKey)
           /\ cs'[MainTab].dom = RenderBoxes(BucketOr(CacheBuckets(c), newKey))
           /\ BucketOr(CacheBuckets(cs'[MainTab]), newKey)
                = BucketOr(CacheBuckets(c), newKey)
           /\ BucketOr(store', newKey) = BucketOr(store, newKey) ]_vars

\* The annotations of a map, over all its buckets.
AllAnnotations(m) == UNION {{m[i].v[n] : n \in 1..Len(m[i].v)} : i \in 1..Len(m)}

\* The end of the example scenario: this session created A and B on /r/1 and
\* C on /r/2, in that order, nothing else is stored, and all is at rest.
ScenarioDone ==
  LET c == cs[MainTab]
  IN /\ c.open /\ c.modal = "none" /\ queue = <<>>
     /\ ~c.allAnnotationsCache.isNull
     /\ c.location = Loc("/r/2", "") /\ c.lastPageKey = "/r/2"
     /\ c.annotationIdCounter = 3
     /\ AllAnnotations(CacheBuckets(c)) =
          { [id |-> generateAnnotationId(now, 0), url |-> Loc("/r/1", ""), comment |-> "A"],
            [id |-> generateAnnotationId(now, 1), url |-> Loc("/r/1", ""), comment |-> "B"],
            [id |-> generateAnnotationId(now, 2), url |-> Loc("/r/2", ""), comment |-> "C"] }

\* C3: after the example scenario the all-pages spreadsheet export has
\* exactly three rows, numbered 1, 2, 3: A and B under the label of /r/1 and
\* C under the label of /r/2.
C3_ScenarioExportsThreeRows ==
  ScenarioDone =>
    /\ "all" \in showScopeDialog(cs[MainTab])
    /\ exportAnnotations(cs[MainTab], "all") =
         << [no |-> 1, name |-> LastSegment("/r/1"), comment |-> "A"],
            [no |-> 2, name |-> LastSegment("/r/1"), comment |-> "B"],
            [no |-> 3, name |-> getPageName(Loc("/r/2", "")), comment |-> "C"] >>

\* The map a step hands to chrome.storage last (the table itself once every
\* request has been served).
WrittenLast == IF queue' = <<>> THEN store' ELSE queue'[Len(queue')].value

\* C4: the write of a save issued before the initial load completed keeps
\* every other page key's bucket as storage held it when the save's read was
\* served, whatever ran between the save and its callback.
C4_FallbackSavePreservesOtherKeys ==
  [][ SaveCallback =>
        \A k \in (KeysOf(store) \cup KeysOf(WrittenLast)) \ {Head(queue).pageKey} :
           /\ Has(store, k) /\ Has(WrittenLast, k)
           /\ Get(WrittenLast, k) = Get(store, k) ]_vars

\* A fallback save has been written while storage held another page's bucket.
C4_Witness ==
  /\ last = "SaveCallback"
  /\ queue = <<>>
  /\ \E i, j \in 1..Len(store) :
        /\ i # j /\ Len(store[i].v) > 0
        /\ store[j].v = Active(cs[MainTab])
        /\ Len(store[j].v) > 0

\* The tab's storage traffic is over and it has saved its list.
HasSaved(t) ==
  /\ cs[t].open /\ ~cs[t].allAnnotationsCache.isNull
  /\ Has(cs[t].allAnnotationsCache.map, getPageKey(cs[t].location))
  /\ Get(cs[t].allAnnotationsCache.map, getPageKey(cs[t].location)) = cs[t].annotations
  /\ Len(Active(cs[t])) > 0

\* C5: a save of page key P changes P's bucket only: once two tabs on
\* different page keys have each saved their list and every write is served,
\* persistent storage holds both buckets.
C5_BothTabsBucketsPersisted ==
  \A t, u \in Tabs :
    (/\ HasSaved(t) /\ HasSaved(u) /\ queue = <<>>
     /\ getPageKey(cs[t].location) # getPageKey(cs[u].location))
    => /\ BucketOr(store, getPageKey(cs[t].location)) = Active(cs[t])
       /\ BucketOr(store, getPageKey(cs[u].location)) = Active(cs[u])

\* saveAnnotations run to completion on an idle store: the table afterwards.
SavedStore(c) ==
  LET w1 == saveAnnotations(MainTab, [c |-> c, q |-> <<>>])
      w2 == IF c.allAnnotationsCache.isNull
            THEN saveAnnotationsCallback(MainTab, [c |-> c, q |-> <<>>], store,
                                         getPageKey(c.location))
            ELSE w1
  IN Drain([s |-> store, q |-> w2.q]).s

\* C6: saving the active list and loading the same page key at once yields
\* a list equal to the one saved, whatever the list and the persisted map.
C6_SaveLoadRoundTrip ==
  LET c == cs[MainTab]
  IN (c.open /\ queue = <<>>) =>
       LET l == LoadFresh(c.location, SavedStore(c)).c
       IN l.heap[l.annotations] = Active(c)

\* The table once the writes a handler issued on an idle store are served.
After(persisted, w) == Drain([s |-> persisted, q |-> w.q]).s

\* C7: loading a page again after a load leaves the persisted map and the
\* active list as the first load left them: nothing is migrated twice, and a
\* legacy key that was migrated stays deleted.
C7_MigrationIdempotent ==
  \A loc \in QueryLocs :
    LET first  == LoadFresh(loc, store)
        s1     == After(store, first)
        second == LoadFresh(loc, s1)
        s2     == After(s1, second)
    IN /\ s2 = s1
       /\ second.q = <<>>
       /\ Active(second.c) = Active(first.c)
       /\ first.q # <<>> => ~Has(s1, legacyKeyOf(loc)) /\ ~Has(s2, legacyKeyOf(loc))

\* A load has migrated the bucket of the pathname-only key and its write
\* has been served.
C7_Witness ==
  /\ last = "LoadCallback"
  /\ queue = <<>>
  /\ ~Has(store, "/r/1")
  /\ Has(store, "/r/1?p")
  /\ Get(store, "/r/1?p") = << OldAnnotation(0, Loc("/r/1", "?p"), "L") >>
  /\ Active(cs[MainTab]) = Get(store, "/r/1?p")

\* C8: the ids of a session's annotations are strictly increasing in the
\* order of creation, however many are created within one clock tick, and
\* the ids in the store are pairwise distinct.
C8_IdsStrictlyIncreasing ==
  LET list == Active(cs[MainTab])
  IN /\ \A i, j \in 1..Len(list) : i < j => list[i].id < list[j].id
     /\ \A b \in 1..Len(store) : \A i, j \in 1..Len(store[b].v) :
           i # j => store[b].v[i].id # store[b].v[j].id

\* The box shows 1 + the index of its annotation in `list`.
BadgeOk(box, list) ==
  \E n \in 1..Len(list) : list[n].id = box.id /\ box.num = n

\* C9: after a deletion has renumbered, every annotation box on screen
\* shows 1 + the index of its annotation in the page's list, and the box of
\* a newly created annotation shows the new length of the list.
C9_BadgesFollowList ==
  [][ LET c == cs[MainTab]
          d == cs'[MainTab]
      IN /\ DeleteConfirm(MainTab) =>
               \A i \in 1..Len(d.dom) :
                  d.dom[i].id # NoId => BadgeOk(d.dom[i], Active(d))
         /\ (c.modal = "prompt" /\ last' = "PromptOk") =>
               \A i \in 1..Len(d.dom) :
                  (i <= Len(c.dom) /\ c.dom[i].id = NoId) =>
                     /\ d.dom[i].num = Len(Active(d))
                     /\ BadgeOk(d.dom[i], Active(d)) ]_vars

\* C10: a screenshotResult that reaches a tab whose export awaits the
\* capture resolves the promise with that message, a click on Cancel
\* resolves it with null, and a pending promise always has its resolver
\* set, so that no answer can pass it by.
C10_CaptureResolvesPromise ==
  [][ \A t \in Tabs :
        /\ (/\ ContentReceive(t)
            /\ Head(wire.toTab[t]).action = "screenshotResult"
            /\ ex[t].promise = "pending")
           => ex'[t].promise = Head(wire.toTab[t]).kind
        /\ CancelClick(t) => ex'[t].promise = "null"
        /\ ex'[t].promise = "pending" => ex'[t].screenshotResolver ]_vars

\* One export got an error result, another was cancelled.
C10_Witness ==
  /\ ex["T1"].promise = "error"
  /\ ex["T2"].promise = "null"
  /\ last = "ContentReceive"

\* The worker has handled every cancelCapture that tab t has sent.
CancelHandled(t) ==
  \A i \in 1..Len(wire.toBg) :
     ~(wire.toBg[i].action = "cancelCapture" /\ wire.toBg[i].tab = t)

\* C11: a click on Cancel resolves the promise with null and shows the
\* sidebar and the toggle button again; the worker that handles the
\* cancelCapture message drops the token from its memory and from the
\* session store, and the badge; an icon click that comes after that, on
\* the tab whose export was cancelled, starts no capture: it reads the
\* session store, which holds no token of that tab.
C11_CancelDropsToken ==
  [][ \A t \in Tabs :
        /\ CancelClick(t) =>
              /\ ex'[t].promise = "null"
              /\ ~ex'[t].uiHidden
              /\ ex'[t].doc = "cancelled"
        /\ (BackgroundReceive /\ Head(wire.toBg).action = "cancelCapture") =>
              /\ bg'.pendingCapture = NoTab
              /\ bg'.session = NoTab
              /\ ~bg'.badge
        /\ (IconClick(t) /\ ex[t].doc = "cancelled" /\ CancelHandled(t)) =>
              /\ bg'.jobs = bg.jobs
              /\ wire'.toTab[t] = wire.toTab[t]
              /\ bg'.lookups = Append(bg.lookups, [tab |-> t, result |-> bg.session])
              /\ bg.session # t ]_vars

\* C12: an icon click on a tab whose token is not in the worker's memory
\* (the worker has restarted, or the token names another tab) reads the
\* session store.  If the store held the token of that tab, the callback
\* puts the token back in memory and starts the capture (hideForCapture is
\* sent to the tab), and the capture, when done, sends screenshotResult to
\* the tab; if the store held no token of that tab, the callback sends
\* toggleSidebar to the tab and starts no capture.
C12_RestartKeepsToken ==
  [][ /\ \A t \in Tabs :
           (IconClick(t) /\ bg.pendingCapture # t) =>
              /\ bg'.lookups = Append(bg.lookups, [tab |-> t, result |-> bg.session])
              /\ bg'.jobs = bg.jobs
      /\ LookupCallback =>
           LET lookup == Head(bg.lookups)
           IN IF lookup.result = lookup.tab
              THEN /\ bg'.pendingCapture = lookup.tab
                   /\ bg'.jobs = Append(bg.jobs, [tab |-> lookup.tab, stage |-> "hide"])
                   /\ wire'.toTab[lookup.tab] =
                        Append(wire.toTab[lookup.tab], Msg("hideForCapture", lookup.tab, ""))
              ELSE /\ bg'.jobs = bg.jobs
                   /\ bg'.pendingCapture = bg.pendingCapture
                   /\ wire'.toTab[lookup.tab] =
                        Append(wire.toTab[lookup.tab], Msg("toggleSidebar", lookup.tab, ""))
      /\ \A i \in 1..Len(bg.jobs) : \A kind \in {"image", "error"} :
           CaptureDone(i, kind) =>
              wire'.toTab[bg.jobs[i].tab] =
                 Append(wire.toTab[bg.jobs[i].tab],
                        Msg("screenshotResult", bg.jobs[i].tab, kind)) ]_vars

\* After a restart of the worker a click on T1, the requesting tab, has read
\* the token from the session store, and its callback has just started the
\* capture.
C12_Witness ==
  /\ last = "LookupCallback"
  /\ bg.pendingCapture = "T1" /\ bg.session = "T1"
  /\ bg.jobs = <<[tab |-> "T1", stage |-> "hide"]>>
  /\ wire.toTab["T1"] = <<Msg("hideForCapture", "T1", "")>>
  /\ wire.toTab["T2"] = <<>>
  /\ ex["T1"].promise = "pending"

\* C13: the worker holds one token slot in memory and one in the session
\* store, so no tab has two tokens; when the worker handles prepareCapture
\* of a tab, whatever the slots held before (nothing, the token of another
\* tab, this tab's earlier request that was never resolved), both slots
\* name the requesting tab afterwards and the badge is on.
C13_PrepareSupersedes ==
  [][ (BackgroundReceive /\ Head(wire.toBg).action = "prepareCapture") =>
         /\ bg'.pendingCapture = Head(wire.toBg).tab
         /\ bg'.session = Head(wire.toBg).tab
         /\ bg'.badge
         /\ bg'.jobs = bg.jobs ]_vars

\* The worker has just handled a prepareCapture of T1 while the capture that
\* an icon click started for T1's earlier request is still under way
\* (hideForCapture is not delivered yet): the token names T1 again.
C13_Witness ==
  /\ last = "BackgroundReceive"
  /\ bg.pendingCapture = "T1" /\ bg.session = "T1" /\ bg.badge
  /\ bg.jobs = <<[tab |-> "T1", stage |-> "hide"]>>
  /\ wire.toTab["T1"] = <<Msg("hideForCapture", "T1", "")>>
  /\ wire.toBg = <<>>
  /\ ex["T1"].promise = "pending" /\ ex["T1"].overlay = "shown"

\* The number of elements of `seq` that satisfy Test.
CountOf(seq, Test(_)) == Cardinality({i \in 1..Len(seq) : Test(seq[i])})

\* Every capture of tab t that has not got its hideForCapture response yet
\* has its message on the way to the tab or its response on the way back.
RoundTripOpen(b, w, t) ==
  LET Hiding(job) == job.tab = t /\ job.stage = "hide"
      ToTab(m) == m.action = "hideForCapture"
      Back(m) == m.action = "hideResponse" /\ m.tab = t
  IN CountOf(b.jobs, Hiding) = CountOf(w.toTab[t], ToTab) + CountOf(w.toBg, Back)

\* C14: the worker takes the capture only when the hideForCapture round
\* trip of that capture has returned and its timer has run; the step that
\* takes it clears the token (memory and session store) and the badge and
\* sends screenshotResult to the tab the capture was started for; and in
\* every state the badge is shown exactly when a token is pending, in
\* memory or in the session store.
C14_CaptureAfterHideThenClear ==
  [][ /\ \A t \in Tabs : RoundTripOpen(bg', wire', t)
      /\ \A i \in 1..Len(bg.jobs) : \A kind \in {"image", "error"} :
           CaptureDone(i, kind) =>
              /\ bg.jobs[i].stage = "timer"
              /\ bg'.pendingCapture = NoTab /\ bg'.session = NoTab
              /\ ~bg'.badge
              /\ wire'.toTab[bg.jobs[i].tab] =
                   Append(wire.toTab[bg.jobs[i].tab],
                          Msg("screenshotResult", bg.jobs[i].tab, kind))
      /\ bg'.badge <=> (bg'.pendingCapture # NoTab \/ bg'.session # NoTab) ]_vars

\* C15: when the capture fails, because screenshotResult carries an error
\* and no image or because sending prepareCapture throws (the extension
\* context is gone), the export shows a message about the failure and
\* ends without a document.
C15_CaptureFailureAborts ==
  [][ \A t \in Tabs :
        /\ (/\ ContentReceive(t)
            /\ Head(wire.toTab[t]) = Msg("screenshotResult", t, "error")
            /\ ex[t].doc = "awaiting")
           => /\ ex'[t].doc = "aborted"
              /\ ex'[t].notice \notin {"none", "exported"}
        /\ \A scope \in Scopes : \A dom \in Doms :
             StartExport(t, scope, dom, FALSE)
             => /\ ex'[t].doc = "aborted"
                /\ ex'[t].notice \notin {"none", "exported"} ]_vars

\* C16: every image load of an export is followed up whether the image
\* loads or fails.  After the load in cropScreenshotToCanvas, either way,
\* the export goes on to the generator; after the generator's load the
\* document is saved and the export reports it, with the image if it
\* loaded and with the placeholder text if it failed; no export is left
\* waiting on an image that has failed.
C16_ImageLoadAlwaysContinues ==
  [][ \A t \in Tabs :
        /\ \A ok \in BOOLEAN : CropSettled(t, ok) => ex'[t].doc = "loading"
        /\ ImageSettled(t, TRUE) =>
              ex'[t].doc = "image" /\ ex'[t].notice = "exported"
        /\ ImageSettled(t, FALSE) =>
              ex'[t].doc = "placeholder" /\ ex'[t].notice = "exported"
        /\ ex'[t].doc # "hung" ]_vars

\* C17: on a host page where no structural selector matches, an image
\* export in either scope resolves no report canvas (a large div is not
\* taken for it), shows the message about the missing canvas, leaves the
\* sidebar and the toggle button visible and ends without a document and
\* without sending prepareCapture.
C17_NoCanvasBlocksExport ==
  [][ \A t \in Tabs : \A scope \in Scopes : \A dom \in Doms :
        (StartExport(t, scope, dom, TRUE) /\ ~dom.selector) =>
           /\ ex'[t].canvas = "none"
           /\ ex'[t].doc = "aborted"
           /\ ex'[t].notice = "noCanvas"
           /\ ~ex'[t].uiHidden
           /\ wire' = wire ]_vars

\* The elements of the pages, page after page.
RECURSIVE Flatten(_)
Flatten(pages) ==
  IF pages = <<>> THEN <<>> ELSE Head(pages) \o Flatten(Tail(pages))

\* ceil(n / k)
CeilDiv(n, k) == (n + k - 1) \div k

\* The pages generatePptx / generatePdf make of m one-line comments.
PagesOf(format, m) ==
  IF format = "ppt" THEN generatePptx(NumberedComments(m))
  ELSE generatePdf(NumberedComments(m))

\* C18 as stated: there is a column height H (in the generator's unit, with
\* its line height h) for which the generator makes ceil(m / floor(H / h))
\* pages or slides of any number m of one-line comments, up to the n of
\* this export; and every comment is placed once, in order.
C18_PageCountIsCeiling ==
  out.format # "none" =>
     /\ Flatten(out.pages) = NumberedComments(out.n)
     /\ LET h == IF out.format = "ppt" THEN 28 ELSE 8
            top == IF out.format = "ppt" THEN 750 ELSE 210
        IN \E H \in h..top : \A m \in 1..out.n :
              Len(PagesOf(out.format, m)) = CeilDiv(m, H \div h)

\* C18, amended: every comment is placed once, in order; the slide deck
\* has ceil(n / 21) slides (21 = floor(5.95 / 0.28) comments on every
\* slide); the PDF has one page for up to 20 comments and
\* 1 + ceil((n - 20) / 21) pages for more: its first page, whose list
\* starts 39 mm down, takes 20 comments and every continuation page, whose
\* list starts 30 mm down, takes 21.
C18_PageCounts ==
  out.format # "none" =>
     /\ Flatten(out.pages) = NumberedComments(out.n)
     /\ out.format = "ppt" => Len(out.pages) = CeilDiv(out.n, 595 \div 28)
     /\ out.format = "pdf" =>
          Len(out.pages) = IF out.n <= 161 \div 8 THEN 1
                           ELSE 1 + CeilDiv(out.n - 161 \div 8, 170 \div 8)

\* A PDF of 41 comments: 20 on the first page, 21 on the second.
C18_Witness ==
  /\ out.format = "pdf" /\ out.n = 41
  /\ Len(out.pages) = 2
  /\ Len(out.pages[1]) = 20 /\ Len(out.pages[2]) = 21

\* The sum of the lengths of the buckets.
RECURSIVE TotalOf(_)
TotalOf(buckets) ==
  IF buckets = <<>> THEN 0 ELSE Len(Head(buckets).v) + TotalOf(Tail(buckets))

\* The comment numbers of a generated page, slide after slide.
NumbersOn(page) == Flatten(page.slides)

RECURSIVE ParseCsv(_, _, _, _, _, _)
ParseCsv(text, i, records, record, field, mode) ==
  IF i > Len(text) THEN Append(records, Append(record, field))
  ELSE LET ch == text[i]
       IN IF mode = "quoted"
          THEN IF ch = "\""
               THEN ParseCsv(text, i + 1, records, record, field, "quote")
               ELSE ParseCsv(text, i + 1, records, record, Append(field, ch), "quoted")
          ELSE IF ch = "\"" /\ mode = "start"
          THEN ParseCsv(text, i + 1, records, record, field, "quoted")
          ELSE IF ch = "\"" /\ mode = "quote"
          THEN ParseCsv(text, i + 1, records, record, Append(field, ch), "quoted")
          ELSE IF ch = ","
          THEN ParseCsv(text, i + 1, records, Append(record, field), <<>>, "start")
          ELSE IF ch = "\n"
          THEN ParseCsv(text, i + 1, Append(records, Append(record, field)),
                        <<>>, <<>>, "start")
          ELSE ParseCsv(text, i + 1, records, record, Append(field, ch), "plain")

\* The annotations of the pages, page after page.
RECURSIVE AnnotationsOf(_)
AnnotationsOf(pages) ==
  IF pages = <<>> THEN <<>>
  ELSE Head(pages).annotations \o AnnotationsOf(Tail(pages))

\* C20: the CSV text, read by a CSV reader, is the header record followed
\* by one record for every annotation of the pages, in order; the record
\* of the k-th annotation holds k, the name of its page, the date and the
\* comment, each as it was; and a cell is written in quotes exactly when
\* it holds a comma, a double quote or a line feed.
C20_CsvRoundTrip ==
  out.format = "csv" =>
     LET records == ParseCsv(out.text, 1, <<>>, <<>>, <<>>, "start")
         rows == buildCsvRows(out.pages, 1)
         all == AnnotationsOf(out.pages)
     IN /\ Len(records) = 1 + Len(all)
        /\ records[1] = Headers
        /\ \A k \in 1..Len(all) :
              /\ records[k + 1] = <<NumStr(k), rows[k].name, DateStr, all[k].comment>>
              /\ \A j \in 1..4 :
                    LET cell == csvCells(rows[k])[j]
                    IN (csvCell(cell) # cell) <=>
                          (Includes(cell, ",") \/ Includes(cell, "\"")
                             \/ Includes(cell, "\n"))

\* A comment that is a quote followed by a line feed, on a page whose name
\* holds a comma, has been written.
C20_Witness ==
  /\ out.format = "csv"
  /\ out.pages[1].annotations[1].comment = <<"\"", "\n">>
  /\ out.pages[1].name = <<"a", ",">>
  /\ out.pages[2].annotations[1].comment = <<"\n", ",">>

\* The keys of a cache, oldest insertion first.
KeyOrder(cache) == [i \in 1..Len(cache) |-> cache[i].k]

\* What the response callback of request i does to the in-memory cache of the
\* tab that asked, as a relation between the cache before and after.
PutStep(i, image, rel(_, _, _)) ==
  CacheAnswer(i, image) =>
    rel(shots.mem[shots.asks[i].tab], shots.asks[i].key,
        shots'.mem[shots.asks[i].tab])

\* C21: a put of a new key into a cache of 20 keys removes the key inserted
\* earliest and nothing else, and keeps the new key with its image; a put
\* that overwrites an existing key removes no key and leaves the new image
\* under that key.
C21_PutEvictsOldestOnly ==
  [][\A i \in 1..MaxPuts : \A image \in Images :
       PutStep(i, image,
         LAMBDA before, key, after :
           /\ (Len(before) = ShotLimit /\ ~ Has(before, key)) =>
                after = Append(Tail(before), [k |-> key, v |-> image])
           /\ Has(before, key) =>
                /\ KeyOrder(after) = KeyOrder(before)
                /\ Get(after, key) = image)]_vars

\* C21 with the cache within its limit before the put.
C21_PutWithinLimit ==
  [][\A i \in 1..MaxPuts : \A image \in Images :
       PutStep(i, image,
         LAMBDA before, key, after :
           Len(before) <= ShotLimit =>
             /\ (Len(before) = ShotLimit /\ ~ Has(before, key)) =>
                  after = Append(Tail(before), [k |-> key, v |-> image])
             /\ Has(before, key) =>
                  /\ KeyOrder(after) = KeyOrder(before)
                  /\ Get(after, key) = image)]_vars

\* C22: in every reachable state the screenshot cache holds at most 20
\* entries, in the memory of every tab and as persisted.
C22_CacheWithinLimit ==
  /\ \A t \in Tabs : Len(shots.mem[t]) <= ShotLimit
  /\ Len(shots.disk) <= ShotLimit

\* The annotations page `key` has in tab t by any account: its bucket in the
\* all-pages cache, its persisted bucket, and the active list while the tab
\* shows the page.
AnnotationsKnown(t, key) ==
  Len(BucketOr(CacheBuckets(cs[t]), key))
  + Len(BucketOr(store, key))
  + (IF cs[t].lastPageKey = key \/ getPageKey(cs[t].location) = key
     THEN Len(Active(cs[t])) ELSE 0)

\* C23: whenever an image is inserted into the screenshot cache under a key,
\* by the response to a background request or by the export, the page of
\* that key has at least one annotation at that moment.
C23_NoImageWithoutAnnotation ==
  [][/\ \A i \in 1..MaxPuts : \A image \in Images :
          CacheAnswer(i, image) =>
            AnnotationsKnown(shots.asks[i].tab, shots.asks[i].key) > 0
     /\ \A image \in Images :
          ExportPut(MainTab, image) =>
            AnnotationsKnown(MainTab, getPageKey(cs[MainTab].location)) > 0]_vars

\* The buckets tab t holds in memory are the buckets persisted: every page
\* has the same annotations in both (a missing bucket counts as empty).
InSync(t) ==
  (cs[t].open /\ ~ cs[t].allAnnotationsCache.isNull) =>
     \A k \in KeysOf(CacheBuckets(cs[t])) \cup KeysOf(store) :
        BucketOr(CacheBuckets(cs[t]), k) = BucketOr(store, k)

\* What tab t holds in memory: the all-pages cache and the active list.
Memory(t) ==
  <<cs[t].allAnnotationsCache.isNull, CacheBuckets(cs[t]), Active(cs[t])>>

\* C24: a failed read of load() or save() leaves the all-pages cache and the
\* active list as they were, and no step taken while storage fails its
\* writes makes the buckets in memory differ from the buckets persisted.
C24_FailureLeavesMemory ==
  [][/\ (LoadFailed \/ SaveReadFailed) => Memory(MainTab)' = Memory(MainTab)
     /\ (fault /\ InSync(MainTab)) => InSync(MainTab)']_vars

\* The page key of tab t changes in this step.
KeyChanges(t) ==
  /\ cs[t].open /\ cs'[t].open
  /\ getPageKey(cs'[t].location) # getPageKey(cs[t].location)

\* C25: every change of the page key gets its own run of the page-transition
\* handler, with the key before the change as old key: when the key changes
\* the change before it has been handled already; and a transition starts
\* only when the transitions before it have run to completion, with no
\* storage request of theirs still waiting for its callback.
C25_OneTransitionPerChange ==
  [][/\ KeyChanges(MainTab) =>
          cs[MainTab].lastPageKey = getPageKey(cs[MainTab].location)
     /\ NavigationTick(MainTab) =>
          \A i \in 1..Len(queue) : queue[i].who # "save"]_vars

\* The source rectangle is the target rectangle scaled, per axis, by image
\* size over viewport size; the canvas is the target rectangle scaled by the
\* device pixel ratio (a canvas has whole pixels).
CropAsStated(o) ==
  LET sx == Over(Whole(o.img.width), Whole(o.inner.width))
      sy == Over(Whole(o.img.height), Whole(o.inner.height))
  IN /\ o.draw.source = [x |-> Times(Whole(o.rect.left), sx),
                         y |-> Times(Whole(o.rect.top), sy),
                         width |-> Times(Whole(o.rect.width), sx),
                         height |-> Times(Whole(o.rect.height), sy)]
     /\ o.draw.canvas = [width |-> Trunc(Times(Whole(o.rect.width), o.dpr)),
                         height |-> Trunc(Times(Whole(o.rect.height), o.dpr))]

FullViewport(o) ==
  o.rect = [left |-> 0, top |-> 0, width |-> o.inner.width,
            height |-> o.inner.height]

WholeImage(o) ==
  o.draw.source = [x |-> Whole(0), y |-> Whole(0),
                   width |-> Whole(o.img.width), height |-> Whole(o.img.height)]

\* C26: the crop draws the target rectangle scaled by image size over
\* viewport size into a canvas of the target rectangle scaled by the device
\* pixel ratio; a target rectangle that spans the viewport selects the whole
\* image at offset (0,0) and gives an output of the image's own dimensions.
C26_FullViewportKeepsDimensions ==
  out.format = "crop" =>
    /\ CropAsStated(out)
    /\ FullViewport(out) =>
         /\ WholeImage(out)
         /\ out.draw.canvas = out.img

\* C26 as amended: the same transform; a target rectangle that spans the
\* viewport selects the whole image at offset (0,0) and gives an output of
\* the viewport's size scaled by the device pixel ratio, which is the
\* image's own size when the image has that many pixels.
C26_FullViewportScalesByRatio ==
  out.format = "crop" =>
    /\ CropAsStated(out)
    /\ FullViewport(out) =>
         /\ WholeImage(out)
         /\ out.draw.canvas =
              [width |-> Trunc(Times(Whole(out.inner.width), out.dpr)),
               height |-> Trunc(Times(Whole(out.inner.height), out.dpr))]
         /\ (out.img.width = Trunc(Times(Whole(out.inner.width), out.dpr))
             /\ out.img.height = Trunc(Times(Whole(out.inner.height), out.dpr)))
            => out.draw.canvas = out.img

\* A crop of the whole viewport, in the older build, of an image that has
\* two pixels per CSS pixel on a display of ratio 1.5.
C26_Witness ==
  /\ out.format = "crop" /\ out.build = "content.js"
  /\ FullViewport(out)
  /\ out.dpr = Frac(3, 2)
  /\ out.img.width = 2 * out.inner.width

\* Every annotation tab t or storage holds: in the active list, in a bucket
\* of the all-pages cache or in a persisted bucket.
Held(t) ==
  LET In(list) == {list[i] : i \in 1..Len(list)}
      Of(m) == UNION {In(m[i].v) : i \in 1..Len(m)}
  IN In(Active(cs[t])) \cup Of(CacheBuckets(cs[t])) \cup Of(store)

\* The step leaves the active list and storage as they were, and no
\* temporary box is left in the document.
NothingAdded(t) ==
  /\ Active(cs'[t]) = Active(cs[t])
  /\ store' = store
  /\ ~ HasDrawingBox(cs'[t].dom)

Added(t) == cs'[t].shapes[Len(cs'[t].shapes)]

Envs == {"undefined", "empty", "nomethod", "ready"}
Urls == {"/r/1", "/r/2"}
PageNames == {"P1", "P2"}

\* How a getActivePage() promise settles: with a page that has a
\* displayName, with one that has none, or rejected.
Outcomes == {"page", "noname", "reject"}

\* A probe has ended without the active page, none having read it so far.
Failed(p) ==
  IF p.detected THEN p
  ELSE [p EXCEPT !.failures = IF @ < maxRetries THEN @ + 1 ELSE @]

\* getActivePageInfo(forceUpdate), up to the call of report.getActivePage()
getActivePageInfo(p, forceUpdate) ==
  IF p.env \in {"undefined", "empty"}
  THEN Failed([p EXCEPT !.hasLoggedStatus = TRUE,
                        !.retryCount = IF @ < maxRetries THEN @ + 1 ELSE @])
  ELSE IF p.env = "nomethod"
  THEN Failed(p)
  ELSE [p EXCEPT !.pending =
                   Append(@, [url |-> p.url, forceUpdate |-> forceUpdate])]

\* The test the fast timer makes after its probe, and the switch to the
\* slow timer
slowDown(p) == p.retryCount = 0 \/ p.retryCount >= maxRetries

\* The callback of the fast timer (500 ms)
pollInterval(p) ==
  LET q == getActivePageInfo(p, FALSE)
  IN IF slowDown(q)
     THEN [q EXCEPT !.fast = FALSE, !.slow = @ + 1, !.switches = @ + 1]
     ELSE q

\* The callbacks of report.getActivePage(): .then with the page, .catch
activePageSettled(p, i, outcome, name) ==
  LET job == p.pending[i]
      rest == [j \in 1..(Len(p.pending) - 1) |->
                 IF j < i THEN p.pending[j] ELSE p.pending[j + 1]]
      send == \/ job.forceUpdate
              \/ name # p.lastSentName
              \/ job.url # p.lastSentUrl
  IN IF outcome = "page"
     THEN [p EXCEPT !.pending = rest,
                    !.lastSentName = IF send THEN name ELSE @,
                    !.lastSentUrl = IF send THEN job.url ELSE @,
                    !.posted = IF send
                               THEN [type |-> "__pbi_annotator_page_info__",
                                     displayName |-> name, url |-> job.url]
                               ELSE @,
                    !.retryCount = 0,
                    !.hasLoggedStatus = FALSE,
                    !.detected = TRUE,
                    !.failures = 0]
     ELSE Failed([p EXCEPT !.pending = rest])

\* A probe may start: the promises under way stay within the bound.
MayProbe == poll.env = "ready" => Len(poll.pending) < MaxPending

PollStep(p, handler) ==
  /\ poll' = p
  /\ last' = handler
  /\ UNCHANGED <<cs, store, queue, now, bg, wire, ex, out, shots, fault>>

\* The script is injected: it sets up the message listener and the fast
\* timer, and probes at once.
ScriptStart ==
  /\ ~ poll.started
  /\ PollStep(getActivePageInfo([poll EXCEPT !.started = TRUE,
                                              !.fast = TRUE], FALSE),
              "ScriptStart")

FastTick ==
  /\ poll.fast
  /\ MayProbe
  /\ PollStep(pollInterval(poll), "FastTick")

\* setInterval(getActivePageInfo, 2000): forceUpdate is undefined
SlowTick ==
  /\ poll.slow > 0
  /\ MayProbe
  /\ PollStep(getActivePageInfo(poll, FALSE), "SlowTick")

\* The content script asks for the page at once.
RequestMessage ==
  /\ poll.started
  /\ MayProbe
  /\ PollStep(getActivePageInfo(poll, TRUE), "RequestMessage")

ActivePageSettled(i, outcome, name) ==
  /\ i \in 1..Len(poll.pending)
  /\ PollStep(activePageSettled(poll, i, outcome, name), "ActivePageSettled")

\* Power BI sets up, or tears down, its embed.
EmbedChanges(env) ==
  /\ env # poll.env
  /\ PollStep([poll EXCEPT !.env = env], "EmbedChanges")

\* The host application navigates.
UrlChanges(url) ==
  /\ url # poll.url
  /\ PollStep([poll EXCEPT !.url = url], "UrlChanges")

NextPoll ==
  \/ ScriptStart
  \/ FastTick
  \/ SlowTick
  \/ RequestMessage
  \/ \E i \in 1..MaxPending, outcome \in Outcomes, name \in PageNames :
       ActivePageSettled(i, outcome, name)
  \/ \E env \in Envs : EmbedChanges(env)
  \/ \E url \in Urls : UrlChanges(url)

SpecPoll == InitWith({<<>>}) /\ [][NextPoll]_vars

\* C29: the page-context script replaces its fast (500 ms) poll by the slow
\* (2 s) poll exactly once, and only after a probe has read the active page
\* or maxRetries (30) probes have failed; the retry counter never exceeds
\* maxRetries.
C29_SlowPollOnceAndOnlyAfter ==
  /\ poll.switches <= 1
  /\ poll.slow = poll.switches
  /\ poll.slow > 0 => ~ poll.fast
  /\ poll.slow > 0 => (poll.detected \/ poll.failures >= maxRetries)
  /\ poll.retryCount <= maxRetries

\* The parts of C29 that hold: at most one switch, after which the fast
\* timer is gone, and the counter within maxRetries.
C29_AtMostOnceAndCounterBounded ==
  /\ poll.switches <= 1
  /\ poll.slow = poll.switches
  /\ poll.slow > 0 => ~ poll.fast
  /\ poll.retryCount <= maxRetries

\* ---------------------------------------------- drawing while the load runs
\* One tab on one page: the user draws and confirms annotations while the
\* storage requests of the initial load and of the saves are served; nothing
\* is deleted and the page does not change, so every confirmed annotation
\* keeps its box.
NextEarly ==
  \/ \E loc \in PathLocs : OpenTab(MainTab, loc)
  \/ ToggleAnnotationMode(MainTab)
  \/ HandleMouseDown(MainTab, MaxCreate - 1)
  \/ \E big \in BOOLEAN : HandleMouseUp(MainTab, big)
  \/ \E comment \in Comments(cs[MainTab].annotationIdCounter) :
        PromptOk(MainTab, comment)
  \/ PromptCancel(MainTab)
  \/ LoadCallback
  \/ SaveCallback
  \/ Tick

SpecEarly == InitPages /\ [][NextEarly]_vars

\* C30: an annotation whose comment is confirmed before the initial load has
\* completed is not lost: once the storage callbacks of the load and of the
\* save have run, it is in the active list and in the persisted bucket of
\* its page (as is every annotation confirmed later).
C30_EarlyAnnotationKept ==
  LET c == cs[MainTab]
  IN (c.open /\ queue = <<>>) =>
       \A i \in 1..Len(c.dom) :
          c.dom[i].id # NoId =>
            /\ c.dom[i].id \in IdsOf(Active(c))
            /\ c.dom[i].id \in IdsOf(BucketOr(store, getPageKey(c.location)))

\* The same for the annotations confirmed once the load has completed:
\* at a confirmation made with the cache loaded, the annotations on screen
\* are in the active list and in the persisted bucket.
C30_LateAnnotationKept ==
  [][(~ cs[MainTab].allAnnotationsCache.isNull /\ last' = "PromptOk"
      /\ \A i \in 1..Len(cs[MainTab].dom) :
            cs[MainTab].dom[i].id # NoId =>
               cs[MainTab].dom[i].id \in IdsOf(Active(cs[MainTab]))) =>
       LET d == cs'[MainTab]
       IN \A i \in 1..Len(d.dom) :
             d.dom[i].id # NoId =>
               /\ d.dom[i].id \in IdsOf(Active(d))
               /\ d.dom[i].id \in
                     IdsOf(BucketOr(store', getPageKey(d.location)))]_vars

\* What a load made on the page of key `key` installs from the stored map:
\* the bucket of the key or, that one being empty, the bucket of the page's
\* legacy key.
LoadsOf(stored, key) ==
  {BucketOr(stored, key)} \cup
  {BucketOr(stored, legacyKeyOf(loc)) :
     loc \in {l \in PathLocs \cup QueryLocs :
                getPageKey(l) = key /\ BucketOr(stored, key) = <<>>}}

\* The initial load of tab t is served in this step.
LoadServed(t) ==
  /\ queue # <<>>
  /\ Head(queue).op = "get" /\ Head(queue).who = "load"
  /\ Head(queue).tab = t
  /\ last' = "LoadCallback"

\* C31: when the storage callback of the initial load runs, the active list
\* becomes the bucket of the page that is current then (the page of the last
\* transition the watcher has handled), also when a transition happened
\* after the load was issued; the bucket of the page that was current at
\* init is never installed on another page.
C31_LoadInstallsCurrentPage ==
  [][LoadServed(MainTab) =>
       Active(cs'[MainTab]) \in LoadsOf(store, cs[MainTab].lastPageKey)]_vars

\* ------------------------------------------- dialogs across a transition
\* The page on which the user asks for a deletion.
HomeLoc == Loc("/r/1", "")

\* The user is on the home page and the watcher has nothing to handle.
AtHome(t) ==
  /\ cs[t].open
  /\ cs[t].location = HomeLoc
  /\ cs[t].lastPageKey = getPageKey(HomeLoc)

\* One tab: the user draws on either page, asks for a Delete or a Clear on
\* the home page only, and answers the dialog at any later time, the host
\* application navigating meanwhile.
NextDialog ==
  \/ \E loc \in PathLocs : OpenTab(MainTab, loc)
  \/ \E loc \in PathLocs : Navigate(MainTab, loc)
  \/ NavigationTick(MainTab)
  \/ ToggleAnnotationMode(MainTab)
  \/ HandleMouseDown(MainTab, MaxCreate - 2)
  \/ HandleMouseUp(MainTab, TRUE)
  \/ \E comment \in Comments(cs[MainTab].annotationIdCounter) :
        PromptOk(MainTab, comment)
  \/ \E id \in IdsOf(Active(cs[MainTab])) :
        AtHome(MainTab) /\ DeleteRequest(MainTab, id)
  \/ DeleteConfirm(MainTab)
  \/ AtHome(MainTab) /\ ClearRequest(MainTab)
  \/ ClearConfirm(MainTab)
  \/ ConfirmCancel(MainTab)
  \/ LoadCallback
  \/ SaveCallback

SpecDialog == InitPages /\ [][NextDialog]_vars

\* The buckets of the keys other than that of the home page, as persisted
\* and as held in the all-pages cache of tab t.
OtherBuckets(stored, c) ==
  [k \in {getPageKey(loc) : loc \in PathLocs} \ {getPageKey(HomeLoc)} |->
     [disk |-> BucketOr(stored, k),
      mem |-> IF c.allAnnotationsCache.isNull THEN <<>>
              ELSE BucketOr(CacheBuckets(c), k)]]

\* C32: a confirmed Delete or Clear acts on the page on which it was asked
\* for: also when a page transition happens while the dialog is open,
\* confirming removes nothing from the bucket of the page navigated to, and
\* the buckets of all other page keys stay as they are.
C32_ConfirmActsOnRequestPage ==
  [][(/\ cs[MainTab].modal \in {"confirmDelete", "confirmClear"}
      /\ ~ cs[MainTab].allAnnotationsCache.isNull
      /\ last' \in {"DeleteConfirm", "ClearConfirm"}) =>
       OtherBuckets(store', cs'[MainTab]) =
         OtherBuckets(store, cs[MainTab])]_vars

\* ------------------------------------------------ what a capture shows
\* chrome.tabs.captureVisibleTab: the picture of what the tab displays, which
\* is the page the host application is on (the page of the tab's locator).
Shot(key) == "shot of " \o key
captureVisibleTab(t) == Shot(getPageKey(cs[t].location))

\* One tab with the worker answering captureForCache: each answer carries
\* the picture of the page the tab displays when the capture is made.
NextView ==
  \/ \E loc \in PathLocs : OpenTab(MainTab, loc)
  \/ \E loc \in PathLocs : Navigate(MainTab, loc)
  \/ NavigationTick(MainTab)
  \/ ToggleAnnotationMode(MainTab)
  \/ HandleMouseDown(MainTab, MaxCreate - 2)
  \/ HandleMouseUp(MainTab, TRUE)
  \/ \E comment \in Comments(cs[MainTab].annotationIdCounter) :
        PromptOk(MainTab, comment)
  \/ LoadCallback
  \/ SaveCallback
  \/ \E i \in 1..MaxPuts :
        /\ i \in 1..Len(shots.asks)
        /\ CacheAnswer(i, captureVisibleTab(shots.asks[i].tab))
  \/ \E i \in 1..MaxPuts : CacheFail(i)
  \/ ExportPut(MainTab, captureVisibleTab(MainTab))

SpecView == InitCache /\ [][NextView]_vars

\* C33: the image held in the screenshot cache under key K was captured
\* while page K was the page displayed; the capture made for the page left
\* at a page transition is not one of the page arrived at.
C33_ImageShowsItsPage ==
  \A i \in 1..Len(shots.mem[MainTab]) :
     shots.mem[MainTab][i].v = Shot(shots.mem[MainTab][i].k)

\* The worker handles a cancelCapture of tab a in this step while the token
\* is armed for another tab.
CancelOfOther(a) ==
  /\ wire.toBg # <<>>
  /\ Head(wire.toBg).action = "cancelCapture"
  /\ Head(wire.toBg).tab = a
  /\ \/ bg.pendingCapture \notin {NoTab, a}
     \/ bg.session \notin {NoTab, a}
  /\ last' = "BackgroundReceive"

\* C34: a cancelCapture sent by tab A drops only a token armed by tab A: the
\* token and the badge armed by another tab B stay, so that an icon click on
\* B still makes B's capture.
C34_CancelDropsOwnTokenOnly ==
  [][\A a \in Tabs :
       CancelOfOther(a) =>
         /\ bg'.pendingCapture = bg.pendingCapture
         /\ bg'.session = bg.session
         /\ bg'.badge = bg.badge]_vars

\* ----------------------------------------------- clicks during a capture
\* Exports that are neither cancelled nor cut short by a reload: a tab arms
\* a new token only once the export before it has had its result.
NextClicks ==
  \/ \E t \in Tabs : StartExport(t, "current", FullDom, TRUE)
  \/ \E t \in Tabs : \E ok \in BOOLEAN : CropSettled(t, ok)
  \/ \E t \in Tabs : \E ok \in BOOLEAN : ImageSettled(t, ok)
  \/ \E t \in Tabs : ContentReceive(t)
  \/ \E t \in Tabs : IconClick(t)
  \/ BackgroundReceive
  \/ LookupCallback
  \/ \E i \in 1..MaxJobs : \E kind \in {"image", "error"} : CaptureDone(i, kind)
  \/ WorkerRestart

SpecClicks == InitCapture /\ [][NextClicks]_vars

\* A capture starts in this step: captureAndSend has run.
CaptureStarts ==
  /\ last' \in {"IconClick", "LookupCallback"}
  /\ Len(bg'.jobs) = Len(bg.jobs) + 1

\* C35: one armed token yields at most one capture and one screenshotResult:
\* an icon click that arrives while the capture for the tab's token is in
\* progress starts no second capture; and the completion of a capture never
\* clears a token armed, by a later prepareCapture, for another tab.
C35_OneCapturePerToken ==
  [][/\ CaptureStarts =>
          \A i \in 1..Len(bg.jobs) :
             bg.jobs[i].tab # bg'.jobs[Len(bg'.jobs)].tab
     /\ \A i \in 1..Len(bg.jobs) :
          (/\ last' = "CaptureDone"
           /\ bg'.jobs = RemoveAt(bg.jobs, i)
           /\ bg.session \notin {NoTab, bg.jobs[i].tab}) =>
             bg'.session = bg.session]_vars

\* The first half of C35 alone.
C35_NoSecondCapture ==
  [][CaptureStarts =>
       \A i \in 1..Len(bg.jobs) :
          bg.jobs[i].tab # bg'.jobs[Len(bg'.jobs)].tab]_vars

\* The second half of C35 alone.
C35_CompletionKeepsLaterToken ==
  [][\A i \in 1..Len(bg.jobs) :
       (/\ last' = "CaptureDone"
        /\ bg'.jobs = RemoveAt(bg.jobs, i)
        /\ bg.session \notin {NoTab, bg.jobs[i].tab}) =>
          bg'.session = bg.session]_vars

\* ------------------------------------------- the worker stops in mid-capture
\* The browser stops the service worker while a capture or a token lookup is
\* under way (the worker crashes or is terminated): its memory, its 200 ms
\* timer and its pending callbacks are gone, the session storage and the
\* badge stay.  captureAndSend has nothing that outlives the worker.
WorkerTeardown ==
  /\ bg.jobs # <<>> \/ bg.lookups # <<>>
  /\ bg' = [bg EXCEPT !.pendingCapture = NoTab, !.jobs = <<>>,
                      !.lookups = <<>>]
  /\ last' = "WorkerTeardown"
  /\ UNCHANGED <<annVars, wire, ex>>

\* The capture protocol of one tab with a worker that may stop at any time.
NextTeardown ==
  \/ StartExport(MainTab, "current", FullDom, TRUE)
  \/ \E ok \in BOOLEAN : CropSettled(MainTab, ok)
  \/ \E ok \in BOOLEAN : ImageSettled(MainTab, ok)
  \/ CancelClick(MainTab)
  \/ ContentReceive(MainTab)
  \/ IconClick(MainTab)
  \/ BackgroundReceive
  \/ LookupCallback
  \/ \E i \in 1..MaxJobs : \E kind \in {"image", "error"} : CaptureDone(i, kind)
  \/ WorkerRestart
  \/ WorkerTeardown

SpecTeardown == InitCapture /\ [][NextTeardown]_vars

\* No capture for tab t is in progress: the worker has none under way and no
\* result is on its way to the tab.
NoCaptureFor(t) ==
  /\ \A i \in 1..Len(bg.jobs) : bg.jobs[i].tab # t
  /\ \A i \in 1..Len(wire.toTab[t]) :
        wire.toTab[t][i].action # "screenshotResult"

\* C36: whenever an export awaits the capture result and no capture is in
\* progress in the worker, the overlay with its Cancel button is visible, so
\* that the user can cancel; also when the worker was stopped after
\* hideForCapture was applied and before the capture completed.
C36_AwaitingCanCancel ==
  \A t \in Tabs :
     (ex[t].promise = "pending" /\ NoCaptureFor(t)) => ex[t].overlay = "shown"

\* ------------------------------------------ migration next to current data
\* Two tabs on a report whose pages differ in the query string, opened at
\* any time on either page; the user draws in the first.
NextMigrate ==
  \/ \E t \in Tabs : \E loc \in QueryLocs : OpenTab(t, loc)
  \/ ToggleAnnotationMode(MainTab)
  \/ HandleMouseDown(MainTab, MaxCreate - 1)
  \/ HandleMouseUp(MainTab, TRUE)
  \/ \E comment \in Comments(cs[MainTab].annotationIdCounter) :
        PromptOk(MainTab, comment)
  \/ LoadCallback
  \/ SaveCallback

SpecMigrate == Init /\ [][NextMigrate]_vars

\* The annotations of `list` written under the current key scheme on the
\* page of key `key`: created by this release (its ids start at IdK) on
\* the page whose path + query is the key.
CurrentScheme(list, key) ==
  {list[i] : i \in {j \in 1..Len(list) :
                      list[j].id >= IdK /\ getPageKey(list[j].url) = key}}

\* C37: the legacy-key migration moves only what the old path-only scheme
\* wrote: an annotation stored under the current scheme for the page
\* without query string (its key is the path) is not moved to, nor deleted
\* in favour of, a page with the same path and a query string.
C37_MigrationMovesLegacyOnly ==
  [][\A t \in Tabs :
       (LoadServed(t) /\ Head(queue).pageKey # Head(queue).legacyKey) =>
          \A a \in CurrentScheme(BucketOr(store, Head(queue).legacyKey),
                                 Head(queue).legacyKey) :
             /\ a \notin {Active(cs'[t])[i] : i \in 1..Len(Active(cs'[t]))}
             /\ \E i \in 1..Len(BucketOr(CacheBuckets(cs'[t]),
                                          Head(queue).legacyKey)) :
                  BucketOr(CacheBuckets(cs'[t]), Head(queue).legacyKey)[i] = a]_vars

\* The keys of cache `old` are kept in cache `new`, but for the oldest one
\* when `old` was full (eviction).
KeptBut(old, new) ==
  \A i \in 1..Len(old) :
     \/ Has(new, old[i].k)
     \/ i = 1 /\ Len(old) >= ShotLimit

\* C38: a write to the screenshot cache made before the initial cache load
\* has completed discards nothing: the write leaves the entries persisted
\* before it in storage (eviction apart), and the load callback that runs
\* after it leaves the entry written in the in-memory cache.
C38_EarlyWriteKeepsEntries ==
  [][/\ (/\ shots.loads[MainTab].on
          /\ last' \in {"CacheAnswer", "ExportPut"}) =>
            KeptBut(shots.disk, shots'.disk)
     /\ last' = "LoadShotsCallback" =>
            KeptBut(shots.mem[MainTab], shots'.mem[MainTab])]_vars

\* exportPages and exportAnnotations, up to the scope: both return at once
\* while the active list is empty, and else take what showScopeDialog offers.
exportScopes(c) ==
  IF Len(Active(c)) = 0 THEN {} ELSE showScopeDialog(c)

\* C39: whenever at least one page key has a non-empty bucket, the all-pages
\* scope can be reached for the document, slide-deck and CSV exports,
\* whether or not the page displayed has annotations itself.
C39_AllPagesScopeReachable ==
  LET c == cs[MainTab]
  IN (c.open /\ ~ c.allAnnotationsCache.isNull
      /\ Len(getAnnotatedPages(c)) >= 1) => "all" \in exportScopes(c)

\* --------------------------------------------- wrapped comments in the PDF
\* generatePdf and generateMultiPagePdf, the comments loop with comments of
\* several lines; lengths in mm.  lines[i] is the number of lines
\* doc.splitTextToSize returns for comment i.  Each placement records the
\* page, the cursor the comment starts at and its lines.
RECURSIVE PdfText(_, _, _, _, _)
PdfText(lines, i, placed, page, currentY) ==
  LET pageH == 210
      margin == 10
      lineHeight == 8
      step == Max2(lineHeight, lines[i] * 4)
  IN IF i > Len(lines) THEN placed
     ELSE IF currentY + lineHeight > pageH - margin
     THEN PdfText(lines, i + 1,
                  Append(placed, [page |-> page + 1, y |-> margin + 10 + 10,
                                  lines |-> lines[i]]),
                  page + 1, margin + 10 + 10 + step)
     ELSE PdfText(lines, i + 1,
                  Append(placed, [page |-> page, y |-> currentY,
                                  lines |-> lines[i]]),
                  page, currentY + step)

\* The comments of a page laid out from contentY + 12 on.
generatePdfText(lines) ==
  LET margin == 10
      titleH == 12
      contentY == margin + titleH + 5
  IN PdfText(lines, 1, <<>>, 1, contentY + 12)

\* n comments of `base` lines each, then one of `tail` lines.
LineCounts(n, base, tail) ==
  [i \in 1..(n + 1) |-> IF i <= n THEN base ELSE tail]

\* An export of comments of one or more lines is about to be generated.
InitWrap ==
  /\ cs = [t \in Tabs |-> Normalize(LoadFresh(Loc("/r/1", ""), CaptureStore).c)]
  /\ store = CaptureStore
  /\ queue = <<>>
  /\ now = 1
  /\ bg = BgInit /\ wire = WireInit /\ ex = [t \in Tabs |-> ExInit]
  /\ last = "init" /\ fault = FALSE /\ poll = PollInit /\ shots = ShotsInit
  /\ \E n \in 0..MaxComments : \E base \in 1..2 : \E tail \in 1..MaxLines :
       out = [format |-> "none", lines |-> LineCounts(n, base, tail)]

GeneratePdfText ==
  /\ out.format = "none"
  /\ out' = [format |-> "pdf", lines |-> out.lines,
             placed |-> generatePdfText(out.lines)]
  /\ last' = "GeneratePdfText"
  /\ UNCHANGED <<cs, store, queue, now, bg, wire, ex, shots, fault, poll>>

NextWrap == GeneratePdfText

SpecWrap == InitWrap /\ [][NextWrap]_vars

\* C40: in the PDF no comment extends past the bottom margin of its page:
\* every comment placed with L wrapped lines starts at a cursor y with
\* y + max(8, 4 * L) <= page height - margin, the cursor advancing by
\* max(8, 4 * L) after each comment.
C40_CommentsAboveBottomMargin ==
  out.format = "pdf" =>
    \A i \in 1..Len(out.placed) :
       out.placed[i].y + Max2(8, 4 * out.placed[i].lines) <= 210 - 10

\* The same for comments of at most two lines, which are no higher than
\* the line height the page-break test allows for.
C40_ShortCommentsAboveBottomMargin ==
  (out.format = "pdf" /\ \A i \in 1..Len(out.lines) : out.lines[i] <= 2) =>
    \A i \in 1..Len(out.placed) :
       out.placed[i].y + Max2(8, 4 * out.placed[i].lines) <= 210 - 10
====
